---- MODULE Spec2Model ----
(***************************************************************************)
(* A model of the NL2SQL agent of sql_agent: the two-tier cache and its    *)
(* model callbacks, the BigQuery validation tool and the parallel model    *)
(* caller of chase_sql.                                                    *)
(*                                                                         *)
(* Python values are represented as follows.  A str that the code only     *)
(* compares or uses as a dict key (a question, a model text) is a TLA+     *)
(* string; None in such a place is the string None.  A str that the code   *)
(* inspects character by character (a SQL string) is a sequence of         *)
(* one-character strings.  An optional object is a record with a field     *)
(* "kind".                                                                 *)
(***************************************************************************)
EXTENDS Integers, Sequences, FiniteSets, TLC

VARIABLES
    \* sql_agent/cache.py, the module-level cache_manager of callbacks.py
    query_cache,        \* CacheManager.query_cache: query text -> entry
    question_cache,     \* CacheManager.question_cache: question text -> query text
    \* one resolution of a question by the database agent
    pc,                 \* per request: where its resolution stands
    req,                \* per request: llm_request, llm_response, callback result
    \* tool_context.state["query_result"]
    state_query_result,
    \* one call of run_bigquery_validation: its arguments, then what it did
    vcall,
    \* one call of GeminiModel.call_parallel: its arguments, its futures, its
    \* results list, where its main thread stands
    batch,
    \* observers of the cache (history variables, written by no code)
    answered,           \* question -> query text last stored for it
    written,            \* query text -> parts of the response last stored under it
    ranAfter,           \* questions whose request saw after_model_callback complete
    errorCached,        \* a cache write was made by a request whose validation failed
    \* the set-up of the database agent and its schema
    agent,              \* NL2SQL_METHOD and what return_instructions_bigquery did
    database_settings,  \* tool_context.state["database_settings"]
    scall,              \* one call of get_database_settings: BigQuery's behaviour,
                        \* then what the call did
    \* one call of initial_bq_nl2sql: its arguments and the model's behaviour,
    \* then what the call did
    gcall,
    state_sql_query,    \* tool_context.state["sql_query"]
    \* deployment/deploy.py and deployment/undeploy.py
    deployer,           \* one run of AgentDeployer.deploy and the resources it touches
    undeployer          \* one run of undeploy.py's main and the resources it touches

cacheVars == <<query_cache, question_cache>>
flowVars == <<pc, req>>
ghostVars == <<answered, written, ranAfter, errorCached>>
validationVars == <<vcall>>
parallelVars == <<batch>>
schemaVars == <<agent, database_settings, scall>>
generationVars == <<gcall, state_sql_query>>
deployVars == <<deployer, undeployer>>
vars == <<query_cache, question_cache, pc, req, state_query_result, vcall, batch,
          answered, written, ranAfter, errorCached, agent, database_settings, scall,
          gcall, state_sql_query, deployer, undeployer>>

-----------------------------------------------------------------------------
(* Python values *)

None == "None"

\* bool(x) of a str-or-None
Truthy(text) == text # None /\ text # ""

Last(s) == s[Len(s)]

\* dict.get(key) and dict[key] = value on a dict held as a function
DictGet(d, key, default) == IF key \in DOMAIN d THEN d[key] ELSE default

DictSet(d, key, value) ==
    [k \in DOMAIN d \cup {key} |-> IF k = key THEN value ELSE d[k]]

EmptyDict == [k \in {} |-> None]

-----------------------------------------------------------------------------
(* sql_agent/cache.py *)

NoEntry == [kind |-> "None"]

get_from_query_cache(query) == DictGet(query_cache, query, NoEntry)

\* query_cache.setdefault(query, response): the first value of a key is kept
set_to_query_cache_setdefault(query, response) ==
    IF query \in DOMAIN query_cache THEN query_cache
    ELSE DictSet(query_cache, query, response)

set_to_query_cache(query, response) == DictSet(query_cache, query, response)

\* question.strip().lower() of the question texts of the model
normalized(question) ==
    IF question \in {"Q1", "q1 "} THEN "q1" ELSE question

\* the question tier read through normalized keys: the entry of any key that
\* is the question up to letter case and outer whitespace
get_from_question_cache_normalized(question) ==
    IF \E k \in DOMAIN question_cache : normalized(k) = normalized(question)
    THEN question_cache[CHOOSE k \in DOMAIN question_cache :
                            normalized(k) = normalized(question)]
    ELSE None

get_from_question_cache(question) == DictGet(question_cache, question, None)

\* question_cache.setdefault(question, query): the first writer is kept
set_to_question_cache_setdefault(question, query) ==
    IF question \in DOMAIN question_cache THEN question_cache
    ELSE DictSet(question_cache, question, query)

set_to_question_cache(question, query) == DictSet(question_cache, question, query)

-----------------------------------------------------------------------------
(* str operations on character sequences *)

LowerLetters ==
    <<"a", "b", "c", "d", "e", "f", "g", "h", "i", "j", "k", "l", "m",
      "n", "o", "p", "q", "r", "s", "t", "u", "v", "w", "x", "y", "z">>

UpperLetters ==
    <<"A", "B", "C", "D", "E", "F", "G", "H", "I", "J", "K", "L", "M",
      "N", "O", "P", "Q", "R", "S", "T", "U", "V", "W", "X", "Y", "Z">>

DigitChars == <<"0", "1", "2", "3", "4", "5", "6", "7", "8", "9">>

\* str.lower() and str.upper() of one character
lower_char(c) ==
    IF \E i \in 1..26 : UpperLetters[i] = c
    THEN LowerLetters[CHOOSE i \in 1..26 : UpperLetters[i] = c]
    ELSE c

upper_char(c) ==
    IF \E i \in 1..26 : LowerLetters[i] = c
    THEN UpperLetters[CHOOSE i \in 1..26 : LowerLetters[i] = c]
    ELSE c

\* str.lower()
lower(s) == [i \in 1..Len(s) |-> lower_char(s[i])]

\* sub in s
contains(s, sub) ==
    \E i \in 1..(Len(s) - Len(sub) + 1) : SubSeq(s, i, i + Len(sub) - 1) = sub

\* s.replace(old, new): the occurrences of old, left to right, not overlapping
RECURSIVE replace(_, _, _)
replace(s, old, new) ==
    IF Len(s) < Len(old) THEN s
    ELSE IF SubSeq(s, 1, Len(old)) = old
         THEN new \o replace(SubSeq(s, Len(old) + 1, Len(s)), old, new)
         ELSE <<Head(s)>> \o replace(Tail(s), old, new)

\* str(n) of a natural number
RECURSIVE str_of_int(_)
str_of_int(n) ==
    IF n < 10 THEN <<DigitChars[n + 1]>>
    ELSE str_of_int(n \div 10) \o <<DigitChars[(n % 10) + 1]>>

\* n as at least width decimal digits, zero padded ("%Y", "%m", "%d")
RECURSIVE zero_padded(_, _)
zero_padded(n, width) ==
    IF Len(str_of_int(n)) >= width THEN str_of_int(n)
    ELSE <<"0">> \o zero_padded(n, width - 1)

-----------------------------------------------------------------------------
(* sql_agent/sub_agents/bigquery/tools.py: run_bigquery_validation *)

MAX_NUM_ROWS == 80

\* cleanup_sql appending the limit whatever the text holds
cleanup_sql_always_limit(sql_string) ==
    LET s1 == replace(sql_string, <<"\\", "\"">>, <<"\"">>)
        s2 == replace(s1, <<"\\", "\n">>, <<"\n">>)
        s3 == replace(s2, <<"\\", "'">>, <<"'">>)
        s4 == replace(s3, <<"\\", "n">>, <<"\n">>)
    IN  s4 \o <<" ", "l", "i", "m", "i", "t", " ">> \o str_of_int(MAX_NUM_ROWS)

\* cleanup_sql, the function nested in run_bigquery_validation
cleanup_sql(sql_string) ==
    LET s1 == replace(sql_string, <<"\\", "\"">>, <<"\"">>)
        s2 == replace(s1, <<"\\", "\n">>, <<"\n">>)
        s3 == replace(s2, <<"\\", "'">>, <<"'">>)
        s4 == replace(s3, <<"\\", "n">>, <<"\n">>)
    IN  IF ~contains(lower(s4), <<"l", "i", "m", "i", "t">>)
        THEN s4 \o <<" ", "l", "i", "m", "i", "t", " ">> \o str_of_int(MAX_NUM_ROWS)
        ELSE s4

\* the alternatives of the pattern given to re.search
DisallowedKeywords ==
    { <<"u", "p", "d", "a", "t", "e">>,
      <<"d", "e", "l", "e", "t", "e">>,
      <<"d", "r", "o", "p">>,
      <<"i", "n", "s", "e", "r", "t">>,
      <<"c", "r", "e", "a", "t", "e">>,
      <<"a", "l", "t", "e", "r">>,
      <<"t", "r", "u", "n", "c", "a", "t", "e">>,
      <<"m", "e", "r", "g", "e">> }

\* the search without the (?i) flag: letters compared with their case
has_disallowed_operation_case_sensitive(s) ==
    \E kw \in DisallowedKeywords : contains(s, kw)

\* re.search(r"(?i)(update|delete|drop|insert|create|alter|truncate|merge)", s):
\* an unanchored search, so a match anywhere in s, letters compared without case
has_disallowed_operation(s) ==
    \E kw \in DisallowedKeywords : contains(lower(s), kw)

NoneValue == [kind |-> "None"]

RowList(rows) == [kind |-> "list", rows |-> rows]

\* the three texts run_bigquery_validation puts in error_message
DisallowedMessage ==
    [kind |-> "str", text |-> "Invalid SQL: Contains disallowed DML/DDL operations.",
     detail |-> ""]

NoResultsMessage ==
    [kind |-> "str", text |-> "Valid SQL. Query executed successfully (no results).",
     detail |-> ""]

ExceptionMessage(e) == [kind |-> "str", text |-> "Invalid SQL: ", detail |-> e]

\* value.strftime("%Y-%m-%d")
strftime_ymd(value) ==
    zero_padded(value.year, 4) \o <<"-">> \o zero_padded(value.month, 2)
        \o <<"-">> \o zero_padded(value.day, 2)

\* isinstance(value, datetime.date): datetime.datetime is a subclass of date
is_date(value) == value.type \in {"date", "datetime"}

\* the dict comprehension over row.items()
convert_row(row) ==
    [key \in DOMAIN row |->
        IF ~is_date(row[key]) THEN row[key]
        ELSE [type |-> "str", value |-> strftime_ymd(row[key])]]

\* the list comprehension over results without the slice
convert_rows_unsliced(results) ==
    [i \in 1..Len(results) |-> convert_row(results[i])]

\* the list comprehension over results, sliced [:MAX_NUM_ROWS]
convert_rows(results) ==
    LET all == [i \in 1..Len(results) |-> convert_row(results[i])]
    IN  SubSeq(all, 1, IF Len(all) < MAX_NUM_ROWS THEN Len(all) ELSE MAX_NUM_ROWS)

\* final_result as run_bigquery_validation creates it
InitialResult == [query_result |-> NoneValue, error_message |-> NoneValue]

\* What the BigQuery side does with one call: exec.kind is
\*   "client_raises"  get_bq_client raises
\*   "query_raises"   bq_client.query raises (also: get_bq_client returned None)
\*   "result_raises"  query_job.result() raises
\*   "no_schema"      the job succeeds and results.schema is empty
\*   "rows"           the job succeeds with a schema and exec.rows
\*   "read_raises"    iterating the results raises
\*   "store_raises"   the job succeeds with rows and the write to
\*                    tool_context.state raises
\* exec.error is the text of the exception raised, if any.

\* the try block storing an empty list when the job has no schema
try_block_stores_without_schema(cleaned, exec, state_before) ==
    LET rows == convert_rows(exec.rows)
    IN  CASE exec.kind = "client_raises" ->
                [final_result |-> InitialResult, queries |-> <<>>,
                 state_query_result |-> state_before, exception |-> exec.error]
          [] exec.kind \in {"query_raises", "result_raises", "read_raises"} ->
                [final_result |-> InitialResult, queries |-> <<cleaned>>,
                 state_query_result |-> state_before, exception |-> exec.error]
          [] exec.kind = "no_schema" ->
                [final_result |-> [InitialResult EXCEPT !.error_message = NoResultsMessage],
                 queries |-> <<cleaned>>,
                 state_query_result |-> RowList(<<>>), exception |-> None]
          [] exec.kind = "rows" ->
                [final_result |-> [InitialResult EXCEPT !.query_result = RowList(rows)],
                 queries |-> <<cleaned>>,
                 state_query_result |-> RowList(rows), exception |-> None]
          [] exec.kind = "store_raises" ->
                [final_result |-> [InitialResult EXCEPT !.query_result = RowList(rows)],
                 queries |-> <<cleaned>>,
                 state_query_result |-> state_before, exception |-> exec.error]

\* The try block: final_result, the strings sent to bq_client.query and
\* tool_context.state["query_result"] when the block ends, and the exception
\* that ended it (None: it ran to its end)
try_block(cleaned, exec, state_before) ==
    LET rows == convert_rows(exec.rows)
    IN  CASE exec.kind = "client_raises" ->
                [final_result |-> InitialResult, queries |-> <<>>,
                 state_query_result |-> state_before, exception |-> exec.error]
          [] exec.kind \in {"query_raises", "result_raises", "read_raises"} ->
                [final_result |-> InitialResult, queries |-> <<cleaned>>,
                 state_query_result |-> state_before, exception |-> exec.error]
          [] exec.kind = "no_schema" ->
                [final_result |-> [InitialResult EXCEPT !.error_message = NoResultsMessage],
                 queries |-> <<cleaned>>,
                 state_query_result |-> state_before, exception |-> None]
          [] exec.kind = "rows" ->
                [final_result |-> [InitialResult EXCEPT !.query_result = RowList(rows)],
                 queries |-> <<cleaned>>,
                 state_query_result |-> RowList(rows), exception |-> None]
          [] exec.kind = "store_raises" ->
                [final_result |-> [InitialResult EXCEPT !.query_result = RowList(rows)],
                 queries |-> <<cleaned>>,
                 state_query_result |-> state_before, exception |-> exec.error]

\* the handler "except Exception as e" re-raises: the exception escapes
except_clause_reraises(tried) ==
    [final_result |-> tried.final_result, queries |-> tried.queries,
     state_query_result |-> tried.state_query_result, raised |-> tried.exception]

\* except Exception as e: final_result["error_message"] = f"Invalid SQL: {e}"
except_clause(tried) ==
    [final_result |-> [tried.final_result EXCEPT
                          !.error_message = ExceptionMessage(tried.exception)],
     queries |-> tried.queries,
     state_query_result |-> tried.state_query_result,
     raised |-> None]

\* the call with the try block run before the safety check is looked at
run_bigquery_validation_executes_first(sql_string, exec, state_before) ==
    LET cleaned == cleanup_sql(sql_string)
        tried == try_block(cleaned, exec, state_before)
    IN  IF has_disallowed_operation(cleaned)
        THEN [final_result |-> [InitialResult EXCEPT !.error_message = DisallowedMessage],
              queries |-> tried.queries,
              state_query_result |-> state_before,
              raised |-> None]
        ELSE IF tried.exception # None THEN except_clause(tried)
        ELSE [final_result |-> tried.final_result,
              queries |-> tried.queries,
              state_query_result |-> tried.state_query_result,
              raised |-> None]

\* The call: what is returned (final_result), the strings sent to
\* bq_client.query, tool_context.state["query_result"] afterwards, and the
\* exception the call raises to its caller (None: it returns)
run_bigquery_validation(sql_string, exec, state_before) ==
    LET cleaned == cleanup_sql(sql_string)
    IN  IF has_disallowed_operation(cleaned)
        THEN [final_result |-> [InitialResult EXCEPT !.error_message = DisallowedMessage],
              queries |-> <<>>,
              state_query_result |-> state_before,
              raised |-> None]
        ELSE LET tried == try_block(cleaned, exec, state_before)
             IN  IF tried.exception # None THEN except_clause(tried)
                 ELSE [final_result |-> tried.final_result,
                       queries |-> tried.queries,
                       state_query_result |-> tried.state_query_result,
                       raised |-> None]

-----------------------------------------------------------------------------
(* sql_agent/sub_agents/bigquery/callbacks.py *)

\* types.Content(role, parts); a part is held as its text, None for a part
\* that carries no text (a function call, a function response)
Content(role, parts) == [kind |-> "Content", role |-> role, parts |-> parts]

LlmResponse(content) == [kind |-> "LlmResponse", content |-> content]

Raised(exception) == [kind |-> "raise", exception |-> exception]

IsNone(x) == x.kind = "None"

\* a dict without keys
EmptyEntry == [kind |-> "dict", artifacts |-> <<>>, empty |-> TRUE]

\* not bool(x) of an optional dict: None and {} are falsy
Falsy(x) == IsNone(x) \/ x = EmptyEntry

\* the callback subscripting the query tier, query_cache[cached_query],
\* instead of going through get_from_query_cache
before_model_callback_subscript(contents) ==
    IF Len(contents) = 0 THEN NoneValue
    ELSE IF Len(Last(contents).parts) = 0 THEN Raised("IndexError")
    ELSE LET question == Last(contents).parts[1]
             cached_query == get_from_question_cache(question)
         IN  IF ~Truthy(cached_query) THEN NoneValue
             ELSE IF cached_query \notin DOMAIN query_cache THEN Raised("KeyError")
             ELSE IF Falsy(query_cache[cached_query]) THEN NoneValue
             ELSE LlmResponse(
                      Content("model", query_cache[cached_query].response.parts))

\* before_model_callback(callback_context, llm_request), contents being
\* llm_request.contents: what it returns, or the exception it raises
before_model_callback(contents) ==
    IF Len(contents) = 0 THEN NoneValue
    ELSE IF Len(Last(contents).parts) = 0 THEN Raised("IndexError")
    ELSE LET question == Last(contents).parts[1]
             cached_query == get_from_question_cache(question)
         IN  IF ~Truthy(cached_query) THEN NoneValue
             ELSE LET cached_response == get_from_query_cache(cached_query)
                  IN  IF Falsy(cached_response) THEN NoneValue
                      ELSE LlmResponse(
                               Content("model", cached_response.response.parts))

\* the guards of after_model_callback: llm_response.content and its parts are
\* truthy, callback_context.history is truthy
after_stores(llm_response, history) ==
    /\ ~IsNone(llm_response.content)
    /\ Len(llm_response.content.parts) > 0
    /\ Len(history) > 0

\* the entry holding the first part of the response only
cache_entry_first_part(llm_response) ==
    [kind |-> "dict",
     response |-> [llm_response.content EXCEPT
                      !.parts = <<llm_response.content.parts[1]>>],
     artifacts |-> <<>>]

\* the dict after_model_callback stores in the query tier
cache_entry(llm_response) ==
    [kind |-> "dict", response |-> llm_response.content, artifacts |-> <<>>]

-----------------------------------------------------------------------------
(* The resolution of a question by the database agent: before each model    *)
(* call before_model_callback runs, a response it returns replaces the      *)
(* model call, otherwise the model is called and after_model_callback runs  *)
(* on its response; a response that calls run_bigquery_validation runs the  *)
(* tool and the model is asked again.                                       *)

\* the most tool calls one resolution makes in the model
MaxToolCalls == 1

Requests == {"r1", "r2"}

Questions == {"q1", "Q1"}

\* llm_request.contents of the first model call of a request
RequestContents ==
    { <<>>, <<Content("user", <<>>)>> }
    \cup { <<Content("user", <<q>>)>> : q \in Questions }

\* callback_context.history as after_model_callback finds it
Histories ==
    { <<>>, <<Content("user", <<>>)>> }
    \cup { <<Content("user", <<q>>)>> : q \in Questions }

\* what the Language Model may answer: no content, no parts, a function call
\* (a first part without text), an empty text, texts, a text and a second part
ModelResponses ==
    { LlmResponse(NoneValue), LlmResponse(Content("model", <<>>)),
      LlmResponse(Content("model", <<"s1", "x">>)) }
    \cup { LlmResponse(Content("model", <<t>>)) : t \in {"s1", "", None} }

IsFunctionCall(llm_response) ==
    /\ ~IsNone(llm_response.content)
    /\ Len(llm_response.content.parts) > 0
    /\ llm_response.content.parts[1] = None

\* the SQL strings and BigQuery behaviours of the tool calls of a resolution
ToolSqls ==
    { <<"s", "e", "l", "e", "c", "t", " ", "1">>,
      <<"d", "r", "o", "p", " ", "t", "a", "b", "l", "e", " ", "t">> }

ToolExecs ==
    { [kind |-> "rows", rows |-> << [n |-> [type |-> "int", value |-> 1]] >>,
       error |-> ""],
      [kind |-> "no_schema", rows |-> <<>>, error |-> ""],
      [kind |-> "query_raises", rows |-> <<>>, error |-> "400 Syntax error"] }

\* no call of run_bigquery_validation is under way
NoCall == [stage |-> "idle"]

\* no call of call_parallel is under way
NoBatch == [pc |-> "idle"]

\* the agent's instruction is not being built, no call of
\* get_database_settings is under way
NoAgent == [stage |-> "idle"]

NoSchemaCall == [stage |-> "idle"]

\* no call of initial_bq_nl2sql is under way, no deployment, no undeployment
NoGeneration == [stage |-> "idle"]

NoDeployer == [pc |-> "idle"]

NoUndeployer == [pc |-> "idle"]

IdleRequest ==
    [contents |-> <<>>, response |-> NoneValue, result |-> NoneValue,
     validation |-> "none", modelInvoked |-> FALSE, executorInvoked |-> FALSE,
     toolCalls |-> 0, question |-> None, query |-> None]

\* the question a request's model call is about, when it has one
HasQuestion(r) ==
    /\ Len(req[r].contents) > 0
    /\ Len(Last(req[r].contents).parts) > 0

QuestionOf(r) == Last(req[r].contents).parts[1]

\* where a resolution goes once after_model_callback has returned
AfterResponse(r) == IF IsFunctionCall(req[r].response) THEN "tool" ELSE "done"

NoteAfterRan(r) ==
    ranAfter' = IF HasQuestion(r) /\ QuestionOf(r) \in Questions
                THEN ranAfter \cup {QuestionOf(r)} ELSE ranAfter

StartRequest(r) ==
    /\ pc[r] = "idle"
    /\ \E contents \in RequestContents :
          req' = [req EXCEPT ![r] = [IdleRequest EXCEPT !.contents = contents]]
    /\ pc' = [pc EXCEPT ![r] = "before"]
    /\ UNCHANGED <<cacheVars, state_query_result, ghostVars, validationVars, parallelVars, schemaVars, generationVars,
                   deployVars>>

BeforeModelCallback(r) ==
    /\ pc[r] = "before"
    /\ LET result == before_model_callback(req[r].contents)
       IN  /\ req' = [req EXCEPT ![r].result = result]
           /\ pc' = [pc EXCEPT ![r] =
                        CASE result.kind = "None" -> "model"
                          [] result.kind = "LlmResponse" -> "hit"
                          [] result.kind = "raise" -> "raised"]
    /\ UNCHANGED <<cacheVars, state_query_result, ghostVars, validationVars, parallelVars, schemaVars, generationVars,
                   deployVars>>

CallModel(r) ==
    /\ pc[r] = "model"
    /\ \E llm_response \in ModelResponses :
          /\ IsFunctionCall(llm_response) => req[r].toolCalls < MaxToolCalls
          /\ req' = [req EXCEPT ![r].response = llm_response,
                                ![r].modelInvoked = TRUE]
    /\ pc' = [pc EXCEPT ![r] = "after"]
    /\ UNCHANGED <<cacheVars, state_query_result, ghostVars, validationVars, parallelVars, schemaVars, generationVars,
                   deployVars>>

\* after_model_callback with its two writes in the other order: the question
\* tier is written in the first step
AfterModelCallbackQuestionFirst(r) ==
    /\ pc[r] = "after"
    /\ \E history \in Histories :
          LET llm_response == req[r].response IN
          IF ~after_stores(llm_response, history)
          THEN /\ pc' = [pc EXCEPT ![r] = AfterResponse(r)]
               /\ NoteAfterRan(r)
               /\ UNCHANGED <<req, cacheVars, answered, written, errorCached>>
          ELSE IF Len(Last(history).parts) = 0
          THEN /\ pc' = [pc EXCEPT ![r] = "raised"]
               /\ UNCHANGED <<req, cacheVars, ghostVars>>
          ELSE LET query == llm_response.content.parts[1]
                   question == Last(history).parts[1]
               IN  /\ question_cache' = set_to_question_cache(question, query)
                   /\ answered' = DictSet(answered, question, query)
                   /\ errorCached' = (errorCached \/ req[r].validation = "invalid")
                   /\ req' = [req EXCEPT ![r].question = question, ![r].query = query]
                   /\ pc' = [pc EXCEPT ![r] = "after_question"]
                   /\ UNCHANGED <<query_cache, written, ranAfter>>
    /\ UNCHANGED <<state_query_result, validationVars, parallelVars, schemaVars, generationVars,
                   deployVars>>

\* after_model_callback up to and including set_to_query_cache; the whole
\* callback when it stores nothing or raises
AfterModelCallback(r) ==
    /\ pc[r] = "after"
    /\ \E history \in Histories :
          LET llm_response == req[r].response IN
          IF ~after_stores(llm_response, history)
          THEN /\ pc' = [pc EXCEPT ![r] = AfterResponse(r)]
               /\ NoteAfterRan(r)
               /\ UNCHANGED <<req, cacheVars, answered, written, errorCached>>
          ELSE IF Len(Last(history).parts) = 0
          THEN /\ pc' = [pc EXCEPT ![r] = "raised"]
               /\ UNCHANGED <<req, cacheVars, ghostVars>>
          ELSE LET query == llm_response.content.parts[1]
                   question == Last(history).parts[1]
               IN  /\ query_cache' = set_to_query_cache(query, cache_entry(llm_response))
                   /\ written' = DictSet(written, query, llm_response.content.parts)
                   /\ errorCached' = (errorCached \/ req[r].validation = "invalid")
                   /\ req' = [req EXCEPT ![r].question = question, ![r].query = query]
                   /\ pc' = [pc EXCEPT ![r] = "after_question"]
                   /\ UNCHANGED <<question_cache, answered, ranAfter>>
    /\ UNCHANGED <<state_query_result, validationVars, parallelVars, schemaVars, generationVars,
                   deployVars>>

\* the last statement of after_model_callback: set_to_question_cache
AfterModelCallbackSetQuestion(r) ==
    /\ pc[r] = "after_question"
    /\ question_cache' = set_to_question_cache(req[r].question, req[r].query)
    /\ answered' = DictSet(answered, req[r].question, req[r].query)
    /\ errorCached' = (errorCached \/ req[r].validation = "invalid")
    /\ NoteAfterRan(r)
    /\ pc' = [pc EXCEPT ![r] = AfterResponse(r)]
    /\ UNCHANGED <<req, query_cache, written, state_query_result, validationVars, parallelVars, schemaVars, generationVars,
                   deployVars>>

\* the model's call of the tool run_bigquery_validation, whose result is
\* appended to the request as a function response
ToolRunBigqueryValidation(r) ==
    /\ pc[r] = "tool"
    /\ \E sql_string \in ToolSqls, exec \in ToolExecs :
          LET out == run_bigquery_validation(sql_string, exec, state_query_result)
              message == out.final_result.error_message
          IN  /\ state_query_result' = out.state_query_result
              /\ req' = [req EXCEPT
                    ![r].validation =
                        IF message \in {NoneValue, NoResultsMessage}
                        THEN "ok" ELSE "invalid",
                    ![r].executorInvoked = (@ \/ out.queries # <<>>),
                    ![r].toolCalls = @ + 1,
                    ![r].contents = Append(@, Content("user", <<None>>)),
                    ![r].response = NoneValue,
                    ![r].result = NoneValue]
    /\ pc' = [pc EXCEPT ![r] = "before"]
    /\ UNCHANGED <<cacheVars, ghostVars, validationVars, parallelVars, schemaVars, generationVars,
                   deployVars>>

FinishRequest(r) ==
    /\ pc[r] \in {"hit", "done", "raised"}
    /\ pc' = [pc EXCEPT ![r] = "idle"]
    /\ req' = [req EXCEPT ![r] = IdleRequest]
    /\ UNCHANGED <<cacheVars, state_query_result, ghostVars, validationVars, parallelVars, schemaVars, generationVars,
                   deployVars>>

Init ==
    /\ query_cache = EmptyDict
    /\ question_cache = EmptyDict
    /\ pc = [r \in Requests |-> IF r = "r1" THEN "idle" ELSE "off"]
    /\ req = [r \in Requests |-> IdleRequest]
    /\ state_query_result = NoneValue
    /\ vcall = NoCall
    /\ batch = NoBatch
    /\ answered = EmptyDict
    /\ written = EmptyDict
    /\ ranAfter = {}
    /\ errorCached = FALSE
    /\ agent = NoAgent
    /\ database_settings = NoneValue
    /\ scall = NoSchemaCall
    /\ gcall = NoGeneration
    /\ state_sql_query = NoneValue
    /\ deployer = NoDeployer
    /\ undeployer = NoUndeployer

Next ==
    \E r \in Requests :
        \/ StartRequest(r)
        \/ BeforeModelCallback(r)
        \/ CallModel(r)
        \/ AfterModelCallback(r)
        \/ AfterModelCallbackSetQuestion(r)
        \/ ToolRunBigqueryValidation(r)
        \/ FinishRequest(r)

Spec == Init /\ [][Next]_vars

-----------------------------------------------------------------------------
(* CacheManager used directly: its setters are public, the callbacks are    *)
(* one client of the module-level cache_manager among others.               *)

ApiQueries == {"s1", "", None}

\* the keys clients write to the question tier: the questions, and one with
\* a trailing blank
ApiQuestions == Questions \cup {"q1 "}

ApiEntries == {EmptyEntry, cache_entry(LlmResponse(Content("model", <<"s1">>)))}

\* set_to_query_cache of a cache that keeps for a question only a query the
\* query tier holds: the write drops the questions answered so far
SetToQueryCacheResetsQuestions ==
    \E query \in ApiQueries, response \in ApiEntries :
        /\ query_cache' = set_to_query_cache(query, response)
        /\ question_cache' = EmptyDict
        /\ written' = DictSet(written, query,
                          IF response = EmptyEntry THEN <<>> ELSE response.response.parts)
        /\ UNCHANGED <<flowVars, state_query_result,
                       answered, ranAfter, errorCached, validationVars, parallelVars, schemaVars, generationVars,
                   deployVars>>

SetToQueryCache ==
    \E query \in ApiQueries, response \in ApiEntries :
        /\ query_cache' = set_to_query_cache(query, response)
        /\ written' = DictSet(written, query,
                          IF response = EmptyEntry THEN <<>> ELSE response.response.parts)
        /\ UNCHANGED <<question_cache, flowVars, state_query_result,
                       answered, ranAfter, errorCached, validationVars, parallelVars, schemaVars, generationVars,
                   deployVars>>

SetToQuestionCache ==
    \E question \in ApiQuestions, query \in ApiQueries :
        /\ question_cache' = set_to_question_cache(question, query)
        /\ answered' = DictSet(answered, question, query)
        /\ UNCHANGED <<query_cache, flowVars, state_query_result,
                       written, ranAfter, errorCached, validationVars, parallelVars, schemaVars, generationVars,
                   deployVars>>

\* the cache written by any client and read by before_model_callback; a
\* request that misses waits for the model
NextApi ==
    \/ SetToQueryCache
    \/ SetToQuestionCache
    \/ \E r \in Requests :
          \/ StartRequest(r)
          \/ BeforeModelCallback(r)
          \/ FinishRequest(r)

SpecApi == Init /\ [][NextApi]_vars

-----------------------------------------------------------------------------
(* Two resolutions at once on the module-level cache_manager, which has no   *)
(* lock: both requests have been received when the cache is empty, each runs *)
(* its callbacks once, and the steps of the two interleave in any order, the *)
(* two cache writes of after_model_callback included.  A response that calls *)
(* a tool leaves its request waiting for the tool.                           *)

InitConcurrent ==
    /\ query_cache = EmptyDict
    /\ question_cache = EmptyDict
    /\ pc = [r \in Requests |-> "before"]
    /\ req \in [Requests ->
                  { [IdleRequest EXCEPT !.contents = <<Content("user", <<q>>)>>] :
                      q \in Questions }]
    /\ state_query_result = NoneValue
    /\ vcall = NoCall
    /\ batch = NoBatch
    /\ answered = EmptyDict
    /\ written = EmptyDict
    /\ ranAfter = {}
    /\ errorCached = FALSE
    /\ agent = NoAgent
    /\ database_settings = NoneValue
    /\ scall = NoSchemaCall
    /\ gcall = NoGeneration
    /\ state_sql_query = NoneValue
    /\ deployer = NoDeployer
    /\ undeployer = NoUndeployer

NextConcurrent ==
    \E r \in Requests :
        \/ BeforeModelCallback(r)
        \/ CallModel(r)
        \/ AfterModelCallback(r)
        \/ AfterModelCallbackSetQuestion(r)

SpecConcurrent == InitConcurrent /\ [][NextConcurrent]_vars

-----------------------------------------------------------------------------
(* run_bigquery_validation called on its own: the arguments of one call are *)
(* drawn, then the call is made.                                            *)

\* the most rows the BigQuery job of the model returns
MaxExecRows == 82

\* every spelling of a word in upper and lower case letters
RECURSIVE CaseVariants(_)
CaseVariants(word) ==
    IF word = <<>> THEN {<<>>}
    ELSE { <<c>> \o rest : c \in {Head(word), upper_char(Head(word))},
                           rest \in CaseVariants(Tail(word)) }

\* what stands before and after a keyword in a candidate query
KeywordContexts ==
    { <<<<>>, <<>>>>,
      <<<<"a", " ">>, <<" ", "t">>>>,
      <<<<"x", "_">>, <<"_", "a", "t">>>>,
      <<<<"\\">>, <<>>>>,
      <<<<"s", "e", "l", "e", "c", "t", " ", "\\", "n">>, <<" ", "l", "i", "m", "i", "t", " ", "5">>>>,
      <<<<"\\", "\n">>, <<"\\", "n">>>> }

\* candidate queries that embed a disallowed keyword, in every case combination
KeywordSqls ==
    { c[1] \o v \o c[2] :
        v \in UNION { CaseVariants(kw) : kw \in DisallowedKeywords },
        c \in KeywordContexts }

\* candidate queries without one: with and without a LIMIT clause, with the
\* escapes cleanup_sql removes, with "limit" inside an identifier
PlainSqls ==
    { <<"s", "e", "l", "e", "c", "t", " ", "1">>,
      <<"s", "e", "l", "e", "c", "t", " ", "a", " ", "f", "r", "o", "m", " ", "t", " ", "l", "i", "m", "i", "t", " ", "5">>,
      <<"s", "e", "l", "e", "c", "t", " ", "a", " ", "f", "r", "o", "m", " ", "t", " ", "L", "I", "M", "I", "T", " ", "5">>,
      <<"S", "E", "L", "E", "C", "T", " ", "a", " ", "F", "R", "O", "M", " ", "t", " ", "L", "i", "m", "i", "t", " ", "5">>,
      <<"s", "e", "l", "e", "c", "t", " ", "\\", "\"", "a", "\\", "\"", " ", "f", "r", "o", "m", " ", "t">>,
      <<"s", "e", "l", "e", "c", "t", " ", "a", "\\", "\n", "f", "r", "o", "m", " ", "t">>,
      <<"s", "e", "l", "e", "c", "t", " ", "\\", "'", "x", "\\", "'">>,
      <<"s", "e", "l", "e", "c", "t", " ", "a", "\\", "n", "f", "r", "o", "m", " ", "t">>,
      <<"s", "e", "l", "e", "c", "t", " ", "u", "n", "l", "i", "m", "i", "t", "e", "d", " ", "f", "r", "o", "m", " ", "t">>,
      <<"s", "e", "l", "e", "c", "t", " ", "d", "t", " ", "f", "r", "o", "m", " ", "t">> }

\* row i of a result: an integer and a string; or an integer and the list of
\* dates of an ARRAY<DATE> column; or an integer, a date and a date-time
ExecRow(i, shape) ==
    IF shape = "plain"
    THEN [id |-> [type |-> "int", value |-> i],
          name |-> [type |-> "str", value |-> <<"a">>]]
    ELSE IF shape = "nested"
    THEN [id |-> [type |-> "int", value |-> i],
          days |-> [type |-> "list",
                    items |-> << [type |-> "date", year |-> 2024, month |-> 3,
                                  day |-> 5] >>]]
    ELSE [id |-> [type |-> "int", value |-> i],
          day |-> [type |-> "date", year |-> 2024, month |-> (i % 12) + 1,
                   day |-> (i % 28) + 1],
          at |-> [type |-> "datetime", year |-> 1999, month |-> 12, day |-> 31,
                  hour |-> 23]]

ExecRows(n, shape) == [i \in 1..n |-> ExecRow(i, shape)]

RowShapes == {"plain", "dated", "nested"}

\* BigQuery behaviours with few rows
SmallExecs ==
    { [kind |-> k, rows |-> <<>>, error |-> "403 Access Denied"] :
        k \in {"client_raises", "query_raises", "result_raises"} }
    \cup { [kind |-> "no_schema", rows |-> <<>>, error |-> None] }
    \cup { [kind |-> "rows", rows |-> ExecRows(n, shape), error |-> None] :
             n \in 0..2, shape \in RowShapes }
    \cup { [kind |-> k, rows |-> ExecRows(1, "dated"), error |-> "400 Bad Request"] :
             k \in {"read_raises", "store_raises"} }

\* BigQuery behaviours with about MAX_NUM_ROWS rows, and more
LargeExecs ==
    { [kind |-> "rows", rows |-> ExecRows(n, shape), error |-> None] :
        n \in (MAX_NUM_ROWS - 1)..MaxExecRows, shape \in RowShapes }
    \cup { [kind |-> "store_raises", rows |-> ExecRows(MaxExecRows, "plain"),
            error |-> "400 Bad Request"] }

\* BigQuery behaviours for the queries that must not reach it
KeywordExecs ==
    { [kind |-> "rows", rows |-> ExecRows(1, "plain"), error |-> None],
      [kind |-> "query_raises", rows |-> <<>>, error |-> "403 Access Denied"] }

\* the arguments of a call
ValidationCalls ==
    { [stage |-> "call", sql_string |-> sql, exec |-> exec] :
        sql \in KeywordSqls, exec \in KeywordExecs }
    \cup { [stage |-> "call", sql_string |-> sql, exec |-> exec] :
             sql \in PlainSqls, exec \in SmallExecs \cup LargeExecs }

\* tool_context.state["query_result"] left by an earlier call
EarlierQueryResults == {NoneValue, RowList(ExecRows(1, "plain"))}

RunBigqueryValidation ==
    /\ vcall.stage = "call"
    /\ LET out == run_bigquery_validation(vcall.sql_string, vcall.exec,
                                          state_query_result)
       IN  /\ vcall' = [stage |-> IF out.raised = None THEN "returned" ELSE "raised",
                        sql_string |-> vcall.sql_string, exec |-> vcall.exec,
                        state_before |-> state_query_result,
                        final_result |-> out.final_result,
                        queries |-> out.queries, raised |-> out.raised]
           /\ state_query_result' = out.state_query_result
    /\ UNCHANGED <<cacheVars, flowVars, ghostVars, parallelVars, schemaVars, generationVars,
                   deployVars>>

\* sql_agent/tools.py, call_ds_agent(question, tool_context): the data handed to
\* the data science agent is tool_context.state["query_result"]; the question
\* "N/A" returns before the state is read; a state without the key raises
call_ds_agent(question, state) ==
    IF question = "N/A" THEN [input_data |-> NoneValue, read |-> FALSE, raised |-> None]
    ELSE IF state = NoneValue
    THEN [input_data |-> NoneValue, read |-> TRUE, raised |-> "KeyError"]
    ELSE [input_data |-> state, read |-> TRUE, raised |-> None]

DsQuestions == {"N/A", "plot it"}

\* the root agent calls call_ds_agent after the database agent has answered
CallDsAgent ==
    /\ vcall.stage = "returned"
    /\ \E question \in DsQuestions :
          LET out == call_ds_agent(question, state_query_result)
          IN  vcall' = [vcall EXCEPT !.stage = "analysed"]
                          @@ [ds_question |-> question, ds |-> out]
    /\ UNCHANGED <<cacheVars, flowVars, ghostVars, state_query_result, parallelVars,
                   schemaVars, generationVars, deployVars>>

InitValidation ==
    /\ query_cache = EmptyDict
    /\ question_cache = EmptyDict
    /\ pc = [r \in Requests |-> "off"]
    /\ req = [r \in Requests |-> IdleRequest]
    /\ state_query_result \in EarlierQueryResults
    /\ vcall \in ValidationCalls
    /\ batch = NoBatch
    /\ answered = EmptyDict
    /\ written = EmptyDict
    /\ ranAfter = {}
    /\ errorCached = FALSE
    /\ agent = NoAgent
    /\ database_settings = NoneValue
    /\ scall = NoSchemaCall
    /\ gcall = NoGeneration
    /\ state_sql_query = NoneValue
    /\ deployer = NoDeployer
    /\ undeployer = NoUndeployer

NextValidation ==
    \/ RunBigqueryValidation
    \/ CallDsAgent

SpecValidation == InitValidation /\ [][NextValidation]_vars

-----------------------------------------------------------------------------
(* sql_agent/sub_agents/bigquery/chase_sql/llm_utils.py: call_parallel      *)
(* The arguments of one call are drawn, then its main thread and one worker *)
(* thread per prompt run, the workers finishing in any order.               *)

\* the most prompts of a batch
MaxPrompts == 3

\* What the model and parser_func do with a prompt:
\*   "text"         the model returns a text, parser_func (if any) returns
\*   "model_raises" client.models.generate_content raises
\*   "parser_raises" the model returns a text and parser_func raises
CallBehaviours == {"text", "model_raises", "parser_raises"}

Prompts == <<"p1", "p2", "p3", "p4">>

\* GeminiModel.call(prompt, parser_func): the value it returns, or the
\* exception it raises
call(prompt, behaviour, parser_func) ==
    CASE behaviour = "model_raises" -> Raised("model: " \o prompt)
      [] behaviour = "parser_raises" /\ parser_func # None -> Raised("parser: " \o prompt)
      [] OTHER -> [kind |-> "str", text |-> prompt,
                   parsed_by |-> parser_func]

\* the worker nested in call_parallel: call, with "except Exception" turned
\* into the text f"Error: {str(e)}"
worker(prompt, behaviour, parser_func) ==
    LET returned == call(prompt, behaviour, parser_func)
    IN  IF returned.kind = "raise"
        THEN [kind |-> "str", text |-> "Error: " \o returned.exception,
              parsed_by |-> None]
        ELSE returned

TimeoutSentinel == [kind |-> "str", text |-> "Timeout", parsed_by |-> None]

NoResult == [kind |-> "None", text |-> None, parsed_by |-> None]

\* results[position] = value: the result stored in completion order
store_in_completion_order(results, index, position, value) ==
    [results EXCEPT ![position] = value]

\* results[index] = future.result(), index being future_to_index[future]
store_result(results, index, position, value) ==
    [results EXCEPT ![index] = value]

\* the arguments of a call and the state of a call that has not begun
BatchCalls ==
    { [pc |-> "start", n |-> n, behaviour |-> b, parser_func |-> f,
       future |-> [i \in 1..n |-> [state |-> "none", value |-> NoResult]],
       results |-> <<>>, order |-> <<>>, outstanding |-> {},
       timed_out |-> FALSE, raised |-> None] :
        n \in 0..MaxPrompts, f \in {None, "parser"},
        b \in UNION { [1..m -> CallBehaviours] : m \in 0..MaxPrompts } }

Indexes == 1..batch.n

Collected == {batch.order[k] : k \in 1..Len(batch.order)}

\* results = [None] * len(prompts); the executor is created and every prompt is
\* submitted.  ThreadPoolExecutor(max_workers=0) raises ValueError.
SubmitAll ==
    /\ batch.pc = "start"
    /\ batch' =
          IF batch.n = 0
          THEN [batch EXCEPT !.pc = "raised", !.raised = "ValueError"]
          ELSE [batch EXCEPT
                   !.pc = "collect",
                   !.results = [i \in 1..batch.n |-> NoResult],
                   !.future = [i \in 1..batch.n |->
                                  [state |-> "running", value |-> NoResult]]]
    /\ UNCHANGED <<cacheVars, flowVars, ghostVars, state_query_result, validationVars,
                   schemaVars, generationVars,
                   deployVars>>

\* the worker thread of prompt i returns: its future is done
WorkerReturns(i) ==
    /\ batch.pc \notin {"idle", "start"}
    /\ batch.future[i].state = "running"
    /\ batch' = [batch EXCEPT !.future[i] =
                    [state |-> "done",
                     value |-> worker(Prompts[i], batch.behaviour[i],
                                      batch.parser_func)]]
    /\ UNCHANGED <<cacheVars, flowVars, ghostVars, state_query_result, validationVars,
                   schemaVars, generationVars,
                   deployVars>>

\* one turn of "for future in as_completed(...)": a finished future is
\* yielded and its result stored
CollectResult(i) ==
    /\ batch.pc = "collect"
    /\ batch.future[i].state = "done"
    /\ i \notin Collected
    /\ batch' = [batch EXCEPT
                    !.results = store_result(batch.results, i,
                                             Len(batch.order) + 1,
                                             batch.future[i].value),
                    !.order = Append(batch.order, i)]
    /\ UNCHANGED <<cacheVars, flowVars, ghostVars, state_query_result, validationVars,
                   schemaVars, generationVars,
                   deployVars>>

\* as_completed finds the timeout elapsed while futures are still to be
\* yielded: it raises TimeoutError, which nothing in call_parallel catches
WaitTimesOut ==
    /\ batch.pc = "collect"
    /\ Collected # Indexes
    /\ batch' = [batch EXCEPT
                    !.pc = "exit",
                    !.timed_out = TRUE,
                    !.outstanding = {i \in Indexes : batch.future[i].state = "running"},
                    !.raised = "TimeoutError"]
    /\ UNCHANGED <<cacheVars, flowVars, ghostVars, state_query_result, validationVars,
                   schemaVars, generationVars,
                   deployVars>>

\* as_completed has yielded every future: the for loop ends
AllCollected ==
    /\ batch.pc = "collect"
    /\ Collected = Indexes
    /\ batch' = [batch EXCEPT !.pc = "exit"]
    /\ UNCHANGED <<cacheVars, flowVars, ghostVars, state_query_result, validationVars,
                   schemaVars, generationVars,
                   deployVars>>

\* the end of the with block: ThreadPoolExecutor.__exit__ is
\* shutdown(wait=True), it returns when every worker has returned; an
\* exception raised in the block then goes on to the caller
ExitExecutor ==
    /\ batch.pc = "exit"
    /\ \A i \in Indexes : batch.future[i].state = "done"
    /\ batch' = [batch EXCEPT !.pc = IF batch.raised = None THEN "mark" ELSE "raised"]
    /\ UNCHANGED <<cacheVars, flowVars, ghostVars, state_query_result, validationVars,
                   schemaVars, generationVars,
                   deployVars>>

\* the loop after the with block, and the return
MarkTimeouts ==
    /\ batch.pc = "mark"
    /\ batch' = [batch EXCEPT
                    !.results = [i \in Indexes |->
                                    IF batch.future[i].state # "done"
                                    THEN TimeoutSentinel ELSE batch.results[i]],
                    !.pc = "returned"]
    /\ UNCHANGED <<cacheVars, flowVars, ghostVars, state_query_result, validationVars,
                   schemaVars, generationVars,
                   deployVars>>

InitParallel ==
    /\ query_cache = EmptyDict
    /\ question_cache = EmptyDict
    /\ pc = [r \in Requests |-> "off"]
    /\ req = [r \in Requests |-> IdleRequest]
    /\ state_query_result = NoneValue
    /\ vcall = NoCall
    /\ batch \in {b \in BatchCalls : Len(b.behaviour) = b.n}
    /\ answered = EmptyDict
    /\ written = EmptyDict
    /\ ranAfter = {}
    /\ errorCached = FALSE
    /\ agent = NoAgent
    /\ database_settings = NoneValue
    /\ scall = NoSchemaCall
    /\ gcall = NoGeneration
    /\ state_sql_query = NoneValue
    /\ deployer = NoDeployer
    /\ undeployer = NoUndeployer

NextParallel ==
    \/ SubmitAll
    \/ \E i \in Indexes : WorkerReturns(i)
    \/ \E i \in Indexes : CollectResult(i)
    \/ WaitTimesOut
    \/ AllCollected
    \/ ExitExecutor
    \/ MarkTimeouts

SpecParallel == InitParallel /\ [][NextParallel]_vars

-----------------------------------------------------------------------------
(* sql_agent/sub_agents/bigquery/prompts.py: return_instructions_bigquery   *)

\* os.getenv("NL2SQL_METHOD", "BASELINE"), None standing for an unset variable
getenv_NL2SQL_METHOD(value) == IF value = None THEN "BASELINE" ELSE value

\* the tool named in the instruction, or the exception raised
return_instructions_bigquery(env_value) ==
    LET NL2SQL_METHOD == getenv_NL2SQL_METHOD(env_value)
    IN  IF NL2SQL_METHOD = "BASELINE" \/ NL2SQL_METHOD = "CHASE"
        THEN [db_tool_name |-> "initial_bq_nl2sql", raised |-> None]
        ELSE [db_tool_name |-> None, raised |-> "ValueError"]

-----------------------------------------------------------------------------
(* sql_agent/sub_agents/bigquery/tools.py: get_bigquery_schema,             *)
(* update_database_settings, get_database_settings                          *)
(*                                                                          *)
(* The DDL text is a sequence of pieces whose concatenation is the text: a  *)
(* piece is one character, or a run of characters that the code neither     *)
(* cuts nor inspects (a run of a template, a name).  The characters that    *)
(* the slices [:-2] and [:-1] remove, and the quotes around a value, are    *)
(* pieces of one character; a string value of a row is character by         *)
(* character.                                                               *)

\* the character U+0060 that quotes a name in a BigQuery text, held by its
\* name
Grave == "GRAVE ACCENT"

\* s[:-n]
DropLast(s, n) == SubSeq(s, 1, Len(s) - n)

\* str(table_ref): project, dataset and table ids joined by dots
TableRef(table) == <<"p", ".", "d", ".", table.table_id>>

\* the lines of one field in CREATE TABLE
field_ddl(field) ==
    <<"  ", Grave, field.name, Grave, " ", field.field_type>>
        \o (IF field.mode = "REPEATED" THEN <<" ARRAY">> ELSE <<>>)
        \o (IF Truthy(field.description)
            THEN <<" COMMENT ", "'", field.description, "'">> ELSE <<>>)
        \o <<",", "\n">>

RECURSIVE fields_ddl(_)
fields_ddl(schema) ==
    IF schema = <<>> THEN <<>>
    ELSE field_ddl(Head(schema)) \o fields_ddl(Tail(schema))

\* what one value of an example row adds to example_row_str; the value is
\* placed between the quotes as it is
value_str(value) ==
    CASE value.type = "str" -> <<"'">> \o value.value \o <<"'", ",">>
      [] value.type = "None" -> <<"NULL", ",">>
      [] OTHER -> str_of_int(value.value) \o <<",">>

RECURSIVE values_str(_)
values_str(row) ==
    IF row = <<>> THEN <<>>
    ELSE value_str(Head(row)) \o values_str(Tail(row))

\* one INSERT statement
example_row_ddl(table, row) ==
    <<"INSERT INTO ", Grave>> \o TableRef(table) \o <<Grave, " VALUES", "\n">>
        \o DropLast(<<"(">> \o values_str(row), 1) \o <<")", ";", "\n", "\n">>

RECURSIVE example_rows_ddl(_, _)
example_rows_ddl(table, rows) ==
    IF rows = <<>> THEN <<>>
    ELSE example_row_ddl(table, Head(rows)) \o example_rows_ddl(table, Tail(rows))

\* max_results of client.list_rows
ExampleRowsMax == 5

\* client.list_rows(table_ref, max_results=5).to_dataframe()
list_rows(table) ==
    SubSeq(table.rows, 1,
           IF Len(table.rows) < ExampleRowsMax THEN Len(table.rows) ELSE ExampleRowsMax)

\* DataFrame.empty: no row, or no column
dataframe_empty(table) == Len(list_rows(table)) = 0 \/ Len(table.schema) = 0

\* ddl_statement of one table of type TABLE
table_ddl(table) ==
    DropLast(<<"CREATE OR REPLACE TABLE ", Grave>> \o TableRef(table)
                 \o <<Grave, " ", "(", "\n">>
                 \o fields_ddl(table.schema), 2)
        \o <<"\n", ")", ";", "\n", "\n">>
        \o (IF dataframe_empty(table) THEN <<>>
            ELSE <<"-- Example values for table ", Grave>> \o TableRef(table)
                     \o <<Grave, ":", "\n">>
                     \o example_rows_ddl(table, list_rows(table)))

\* ddl_statements after the tables of the sequence, views skipped
RECURSIVE tables_ddl(_)
tables_ddl(tables) ==
    IF tables = <<>> THEN <<>>
    ELSE (IF Head(tables).table_type # "TABLE" THEN <<>> ELSE table_ddl(Head(tables)))
             \o tables_ddl(Tail(tables))

\* What BigQuery does during one call: dataset.fail.at is
\*   "none"         every request succeeds
\*   "list_tables"  client.list_tables raises
\*   "get_table"    client.get_table raises for table number dataset.fail.table
\*   "list_rows"    list_rows(...).to_dataframe() raises for that table
\* the number of the table at which the loop is left by an exception, 0 for
\* none: get_table is asked for every table, the rows for tables of type TABLE
FailingTable(dataset) ==
    IF /\ dataset.fail.at \in {"get_table", "list_rows"}
       /\ dataset.fail.table \in 1..Len(dataset.tables)
       /\ dataset.fail.at = "list_rows"
             => dataset.tables[dataset.fail.table].table_type = "TABLE"
    THEN dataset.fail.table
    ELSE 0

\* get_bigquery_schema with "except Exception: return ddl_statements"
get_bigquery_schema_returns_partial(dataset) ==
    IF dataset.fail.at = "list_tables"
    THEN [ddl |-> <<>>, raised |-> None, partial |-> <<>>]
    ELSE IF FailingTable(dataset) # 0
    THEN [ddl |-> tables_ddl(SubSeq(dataset.tables, 1, FailingTable(dataset) - 1)),
          raised |-> None,
          partial |-> tables_ddl(SubSeq(dataset.tables, 1, FailingTable(dataset) - 1))]
    ELSE [ddl |-> tables_ddl(dataset.tables), raised |-> None,
          partial |-> tables_ddl(dataset.tables)]

\* get_bigquery_schema(dataset_id, client, project_id): the text it returns
\* (ddl), or the exception it raises; partial is ddl_statements when it ends
get_bigquery_schema(dataset) ==
    IF dataset.fail.at = "list_tables"
    THEN [ddl |-> NoneValue, raised |-> dataset.fail.error, partial |-> <<>>]
    ELSE IF FailingTable(dataset) # 0
    THEN [ddl |-> NoneValue, raised |-> dataset.fail.error,
          partial |-> tables_ddl(SubSeq(dataset.tables, 1, FailingTable(dataset) - 1))]
    ELSE [ddl |-> tables_ddl(dataset.tables), raised |-> None,
          partial |-> tables_ddl(dataset.tables)]

\* update_database_settings(tool_context): the dict it returns (the ChaseSQL
\* constants it adds are left out), or the exception it raises
update_database_settings(dataset) ==
    LET fetched == get_bigquery_schema(dataset)
    IN  IF fetched.raised # None
        THEN [settings |-> NoneValue, raised |-> fetched.raised,
              partial |-> fetched.partial]
        ELSE [settings |-> [kind |-> "dict", bq_project_id |-> "p",
                            bq_dataset_id |-> "d", bq_ddl_schema |-> fetched.ddl],
              raised |-> None, partial |-> fetched.partial]

\* get_database_settings fetching on every call, stored settings or not
get_database_settings_always_updates(state_before, dataset) ==
    LET updated == update_database_settings(dataset)
    IN  IF updated.raised # None
        THEN [returned |-> NoneValue, state |-> state_before,
              raised |-> updated.raised, fetched |-> TRUE,
              partial |-> updated.partial]
        ELSE [returned |-> updated.settings, state |-> updated.settings,
              raised |-> None, fetched |-> TRUE, partial |-> updated.partial]

\* get_database_settings(tool_context), state_before being
\* tool_context.state.get("database_settings"): what it returns, the entry of
\* tool_context.state afterwards, whether the schema was fetched
get_database_settings(state_before, dataset) ==
    IF state_before # NoneValue
    THEN [returned |-> state_before, state |-> state_before, raised |-> None,
          fetched |-> FALSE, partial |-> <<>>]
    ELSE LET updated == update_database_settings(dataset)
         IN  IF updated.raised # None
             THEN [returned |-> NoneValue, state |-> state_before,
                   raised |-> updated.raised, fetched |-> TRUE,
                   partial |-> updated.partial]
             ELSE [returned |-> updated.settings, state |-> updated.settings,
                   raised |-> None, fetched |-> TRUE, partial |-> updated.partial]

-----------------------------------------------------------------------------
(* The set-up of the database agent: its instruction is built from          *)
(* NL2SQL_METHOD, then its tools ask for the database settings, the first   *)
(* call fetching the schema of the dataset.                                 *)

\* the most tables of the dataset
MaxTables == 2

\* the most calls of get_database_settings
MaxSchemaCalls == 2

\* values of the environment variable NL2SQL_METHOD, None for unset
MethodSettings == {None, "BASELINE", "CHASE", "DC", ""}

StrValue(chars) == [type |-> "str", value |-> chars]

IntValue(n) == [type |-> "int", value |-> n]

NullValue == [type |-> "None", value |-> 0]

SchemaField(name, field_type, mode, description) ==
    [name |-> name, field_type |-> field_type, mode |-> mode,
     description |-> description]

\* the tables of the dataset: two columns and two rows, one of them with a
\* NULL; a string value holding a quote; a view; a table without columns and
\* rows; a table of more rows than list_rows is asked for
SchemaTables ==
    { [table_id |-> "users", table_type |-> "TABLE",
       schema |-> << SchemaField("name", "STRING", "NULLABLE", None),
                     SchemaField("tags", "INT64", "REPEATED", "the tags") >>,
       rows |-> << <<StrValue(<<"a", "b">>), IntValue(1)>>,
                   <<NullValue, IntValue(12)>> >>],
      [table_id |-> "authors", table_type |-> "TABLE",
       schema |-> << SchemaField("name", "STRING", "NULLABLE", "") >>,
       rows |-> << <<StrValue(<<"O", "'", "B">>)>> >>],
      [table_id |-> "v", table_type |-> "VIEW",
       schema |-> << SchemaField("name", "STRING", "NULLABLE", None) >>,
       rows |-> << <<StrValue(<<"a">>)>> >>],
      [table_id |-> "empty", table_type |-> "TABLE", schema |-> <<>>, rows |-> <<>>],
      [table_id |-> "log", table_type |-> "TABLE",
       schema |-> << SchemaField("n", "INT64", "NULLABLE", None) >>,
       rows |-> [i \in 1..(ExampleRowsMax + 1) |-> <<IntValue(i)>>]] }

Failures ==
    { [at |-> "none", table |-> 0, error |-> None],
      [at |-> "list_tables", table |-> 0, error |-> "403 Access Denied"] }
    \cup { [at |-> k, table |-> i, error |-> "404 Not found"] :
             k \in {"get_table", "list_rows"}, i \in 1..MaxTables }

Datasets ==
    { [tables |-> ts, fail |-> f] :
        ts \in UNION { [1..n -> SchemaTables] : n \in 0..MaxTables },
        f \in Failures }

\* call number calls of get_database_settings, about to be made
SchemaCall(dataset, calls) ==
    [stage |-> "call", dataset |-> dataset, calls |-> calls,
     state_before |-> NoneValue, returned |-> NoneValue, raised |-> None,
     fetched |-> FALSE, partial |-> <<>>]

\* the instruction of the agent is built
ReturnInstructionsBigquery ==
    /\ agent.stage = "start"
    /\ LET out == return_instructions_bigquery(agent.NL2SQL_METHOD)
       IN  agent' = [agent EXCEPT
                        !.stage = IF out.raised = None THEN "built" ELSE "raised",
                        !.db_tool_name = out.db_tool_name,
                        !.raised = out.raised]
    /\ UNCHANGED <<cacheVars, flowVars, ghostVars, state_query_result, validationVars,
                   parallelVars, database_settings, scall, generationVars,
                   deployVars>>

\* a tool of the agent calls get_database_settings(tool_context)
GetDatabaseSettings ==
    /\ agent.stage = "built"
    /\ scall.stage = "call"
    /\ LET out == get_database_settings(database_settings, scall.dataset)
       IN  /\ scall' = [scall EXCEPT
                           !.stage = IF out.raised = None THEN "returned" ELSE "raised",
                           !.state_before = database_settings,
                           !.returned = out.returned,
                           !.raised = out.raised,
                           !.fetched = out.fetched,
                           !.partial = out.partial]
           /\ database_settings' = out.state
    /\ UNCHANGED <<cacheVars, flowVars, ghostVars, state_query_result, validationVars,
                   parallelVars, agent, generationVars, deployVars>>

\* the next call, BigQuery failing or not as it pleases, the dataset as it was
\* or with its first table dropped in the meantime
NextSchemaCall ==
    /\ scall.stage \in {"returned", "raised"}
    /\ scall.calls < MaxSchemaCalls
    /\ \E fail \in Failures :
       \E tables \in {scall.dataset.tables,
                      SubSeq(scall.dataset.tables, 2, Len(scall.dataset.tables))} :
          scall' = SchemaCall([tables |-> tables, fail |-> fail], scall.calls + 1)
    /\ UNCHANGED <<cacheVars, flowVars, ghostVars, state_query_result, validationVars,
                   parallelVars, agent, database_settings, generationVars,
                   deployVars>>

InitSetup ==
    /\ query_cache = EmptyDict
    /\ question_cache = EmptyDict
    /\ pc = [r \in Requests |-> "off"]
    /\ req = [r \in Requests |-> IdleRequest]
    /\ state_query_result = NoneValue
    /\ vcall = NoCall
    /\ batch = NoBatch
    /\ answered = EmptyDict
    /\ written = EmptyDict
    /\ ranAfter = {}
    /\ errorCached = FALSE
    /\ agent \in { [stage |-> "start", NL2SQL_METHOD |-> m, db_tool_name |-> None,
                    raised |-> None] : m \in MethodSettings }
    /\ database_settings = NoneValue
    /\ scall \in { SchemaCall(dataset, 1) : dataset \in Datasets }
    /\ gcall = NoGeneration
    /\ state_sql_query = NoneValue
    /\ deployer = NoDeployer
    /\ undeployer = NoUndeployer

NextSetup ==
    \/ ReturnInstructionsBigquery
    \/ GetDatabaseSettings
    \/ NextSchemaCall

SpecSetup == InitSetup /\ [][NextSetup]_vars

-----------------------------------------------------------------------------
(* sql_agent/sub_agents/bigquery/tools.py: initial_bq_nl2sql                *)
(* The text of a model response is character by character, the grave accent *)
(* being the piece Grave.                                                   *)

WhitespaceChars == {" ", "\n", "\t"}

\* str.lstrip(), str.rstrip(), str.strip()
RECURSIVE lstrip(_)
lstrip(s) ==
    IF s # <<>> /\ Head(s) \in WhitespaceChars THEN lstrip(Tail(s)) ELSE s

RECURSIVE rstrip(_)
rstrip(s) ==
    IF s # <<>> /\ s[Len(s)] \in WhitespaceChars
    THEN rstrip(SubSeq(s, 1, Len(s) - 1)) ELSE s

strip(s) == rstrip(lstrip(s))

CodeFence == <<Grave, Grave, Grave>>

\* the first replace only: the fences that open a block with its language
remove_sql_fences_only(sql) ==
    strip(replace(sql, CodeFence \o <<"s", "q", "l">>, <<>>))

\* sql.replace(fence + "sql", "").replace(fence, "").strip()
remove_code_fences(sql) ==
    strip(replace(replace(sql, CodeFence \o <<"s", "q", "l">>, <<>>),
                  CodeFence, <<>>))

StrOf(chars) == [kind |-> "str", chars |-> chars]

\* initial_bq_nl2sql(question, tool_context).  state_settings and
\* state_sql_query_before are the entries of tool_context.state before the
\* call, dataset is what BigQuery does if the schema is fetched, model what
\* llm_client.models.generate_content does: it raises, or returns a response
\* whose text is model.text (None, or a str).  The result: the value returned,
\* the two entries of tool_context.state afterwards, the prompts sent to the
\* model, the exception raised
initial_bq_nl2sql(question, state_settings, state_sql_query_before, dataset, model) ==
    LET settings == get_database_settings(state_settings, dataset)
        prompt == [MAX_NUM_ROWS |-> MAX_NUM_ROWS,
                   SCHEMA |-> settings.returned.bq_ddl_schema,
                   QUESTION |-> question]
    IN  IF settings.raised # None
        THEN [returned |-> NoneValue, sql_query |-> state_sql_query_before,
              database_settings |-> settings.state, prompts |-> <<>>,
              raised |-> settings.raised]
        ELSE IF model.kind = "raises"
        THEN [returned |-> NoneValue, sql_query |-> state_sql_query_before,
              database_settings |-> settings.state, prompts |-> <<prompt>>,
              raised |-> model.error]
        ELSE LET sql == IF model.text.kind = "str" /\ model.text.chars # <<>>
                        THEN StrOf(remove_code_fences(model.text.chars))
                        ELSE model.text
             IN  [returned |-> sql, sql_query |-> sql,
                  database_settings |-> settings.state, prompts |-> <<prompt>>,
                  raised |-> None]

\* the most pieces a model text is made of
MaxTextPieces == 4

\* what model texts are made of: a fence, one and two grave accents, the
\* language name, blanks, a word
TextPieces ==
    { CodeFence, <<Grave>>, <<Grave, Grave>>, <<"s", "q", "l">>, <<" ">>, <<"\n">>,
      <<"a">> }

RECURSIVE Concat(_)
Concat(pieces) ==
    IF pieces = <<>> THEN <<>> ELSE Head(pieces) \o Concat(Tail(pieces))

ModelTexts ==
    { Concat(pieces) :
        pieces \in UNION { [1..n -> TextPieces] : n \in 0..MaxTextPieces } }

ModelBehaviours ==
    { [kind |-> "text", text |-> StrOf(chars), error |-> None] : chars \in ModelTexts }
    \cup { [kind |-> "text", text |-> NoneValue, error |-> None],
           [kind |-> "raises", text |-> NoneValue, error |-> "503 Unavailable"] }

\* the schema, when it is fetched: a dataset of one table, or a failure
GenerationDatasets ==
    { [tables |-> << CHOOSE table \in SchemaTables : table.table_id = "users" >>,
       fail |-> fail] :
        fail \in { f \in Failures : f.at \in {"none", "list_tables"} } }

\* settings stored by an earlier call
StoredSettings ==
    [kind |-> "dict", bq_project_id |-> "p", bq_dataset_id |-> "d",
     bq_ddl_schema |-> <<>>]

GenerationCalls ==
    { [stage |-> "call", question |-> "q1", dataset |-> dataset, model |-> model,
       state_before |-> NoneValue, sql_query_before |-> NoneValue,
       returned |-> NoneValue, prompts |-> <<>>, raised |-> None] :
        dataset \in GenerationDatasets, model \in ModelBehaviours }

InitialBqNl2sql ==
    /\ gcall.stage = "call"
    /\ LET out == initial_bq_nl2sql(gcall.question, database_settings,
                                    state_sql_query, gcall.dataset, gcall.model)
       IN  /\ gcall' = [gcall EXCEPT
                           !.stage = IF out.raised = None THEN "returned" ELSE "raised",
                           !.state_before = database_settings,
                           !.sql_query_before = state_sql_query,
                           !.returned = out.returned,
                           !.prompts = out.prompts,
                           !.raised = out.raised]
           /\ state_sql_query' = out.sql_query
           /\ database_settings' = out.database_settings
    /\ UNCHANGED <<cacheVars, flowVars, ghostVars, state_query_result, validationVars,
                   parallelVars, agent, scall, deployVars>>

InitGeneration ==
    /\ query_cache = EmptyDict
    /\ question_cache = EmptyDict
    /\ pc = [r \in Requests |-> "off"]
    /\ req = [r \in Requests |-> IdleRequest]
    /\ state_query_result = NoneValue
    /\ vcall = NoCall
    /\ batch = NoBatch
    /\ answered = EmptyDict
    /\ written = EmptyDict
    /\ ranAfter = {}
    /\ errorCached = FALSE
    /\ agent = NoAgent
    /\ database_settings \in {NoneValue, StoredSettings}
    /\ scall = NoSchemaCall
    /\ gcall \in GenerationCalls
    /\ state_sql_query \in {NoneValue, StrOf(<<"s", "e", "l", "e", "c", "t", " ", "1">>)}
    /\ deployer = NoDeployer
    /\ undeployer = NoUndeployer

NextGeneration == InitialBqNl2sql

SpecGeneration == InitGeneration /\ [][NextGeneration]_vars

-----------------------------------------------------------------------------
(* deployment/deploy.py: AgentDeployer                                      *)
(* One run of deploy().  What gcloud, the Discovery Engine API, Vertex AI   *)
(* and the file system answer is chosen step by step.  deployer.calls is    *)
(* the log of the methods entered and of the requests that delete something.*)

\* subprocess.run of gcloud: it prints a token, exits with an error, or is
\* not installed
TokenOutcomes == {"ok", "CalledProcessError", "FileNotFoundError"}

\* AgentDeployer._get_access_token: only CalledProcessError is wrapped
deployer_get_access_token(outcome) ==
    CASE outcome = "ok" -> [token |-> "token", raised |-> None]
      [] outcome = "CalledProcessError" ->
            [token |-> None, raised |-> "DeploymentError: Failed to get access token"]
      [] outcome = "FileNotFoundError" ->
            [token |-> None, raised |-> "FileNotFoundError"]

\* the answers to the POST of create_oauth_authorization: 409 when an
\* authorization of that id exists, 201 when it does not
OAuthCreateStatuses(existed) ==
    (IF existed THEN {"409"} ELSE {"201"}) \cup {"403", "RequestException"}

\* create_oauth_authorization(access_token): 200, 201 and 409 all return the
\* id and the path
create_oauth_authorization(status) ==
    CASE status \in {"200", "201", "409"} ->
            [auth_id |-> "auth1", auth_path |-> "authorizations/auth1", raised |-> None]
      [] status = "RequestException" ->
            [auth_id |-> None, auth_path |-> None,
             raised |-> "DeploymentError: Failed to create OAuth authorization"]
      [] OTHER ->
            [auth_id |-> None, auth_path |-> None,
             raised |-> "DeploymentError: OAuth authorization creation failed"]

\* what Vertex AI and the staging bucket do
EngineOutcomes == {"ok", "bucket_forbidden", "create_raises"}

\* deploy_to_agent_engine(): self.deployed_agent is assigned when
\* agent_engines.create returns
deploy_to_agent_engine(outcome) ==
    CASE outcome = "ok" ->
            [deployed_agent |-> "engine1", resource_name |-> "reasoningEngines/1",
             raised |-> None]
      [] outcome = "bucket_forbidden" ->
            [deployed_agent |-> None, resource_name |-> None,
             raised |-> "DeploymentError: Agent Engine deployment failed"]
      [] outcome = "create_raises" ->
            [deployed_agent |-> None, resource_name |-> None,
             raised |-> "DeploymentError: Agent Engine deployment failed"]

RegisterStatuses == {"200", "500", "RequestException"}

\* register_in_agentspace(agent_resource_name, access_token)
register_in_agentspace(status) ==
    CASE status \in {"200", "201"} -> [agent_id |-> "agent1", raised |-> None]
      [] status = "RequestException" ->
            [agent_id |-> None, raised |-> "DeploymentError: Failed to register in AgentSpace"]
      [] OTHER ->
            [agent_id |-> None, raised |-> "DeploymentError: AgentSpace registration failed"]

\* the file system under save_deployment_state: the file is written, or
\* mkdir or open raises and the file is as it was
SaveOutcomes == {"ok", "open_raises"}

save_deployment_state(outcome, state_file) ==
    IF outcome = "ok" THEN [state_file |-> "this", raised |-> None]
    ELSE [state_file |-> state_file, raised |-> "PermissionError"]

\* what the services answer during a rollback
RollbackOutcomes ==
    [delete_agent : {"ok", "raises"},
     token : TokenOutcomes,
     delete_auth : {"200", "500", "RequestException"},
     unlink : {"ok", "PermissionError"}]

\* rollback_deployment(): the Agent Engine deletion and the OAuth deletion
\* are each inside a try that logs; exists() and unlink() of the state file
\* are not
rollback_deployment(d, env) ==
    LET agent_calls ==
            IF d.deployed_agent # None THEN <<"deployed_agent.delete">> ELSE <<>>
        oauth_calls ==
            IF Truthy(d.authorization_id) /\ ~d.terraform_managed
            THEN IF deployer_get_access_token(env.token).raised = None
                 THEN <<"requests.delete authorization">>
                 ELSE <<>>
            ELSE <<>>
        unlink_raises == d.state_file # "absent" /\ env.unlink # "ok"
    IN  [d EXCEPT
            !.calls = @ \o <<"rollback_deployment">> \o agent_calls \o oauth_calls
                        \o (IF d.state_file # "absent" THEN <<"state_file.unlink">> ELSE <<>>),
            !.state_file = IF unlink_raises THEN @ ELSE "absent",
            !.rollback_raised = IF unlink_raises THEN env.unlink ELSE None]

\* AgentDeployer.__init__: AUTH_PATH unset, empty or set; Terraform-managed
\* or not; and, outside the program, whether an authorization of the id
\* exists and whether an earlier run left a state file
Deployers ==
    { [pc |-> "token", AUTH_PATH |-> auth_path, auth_path |-> auth_path,
       authorization_id |-> None, terraform_managed |-> terraform,
       deployed_agent |-> None, access_token |-> None,
       agent_resource_name |-> None, agent_id |-> None,
       exception |-> None, rollback_raised |-> None, raised |-> None,
       calls |-> <<>>, state_file |-> state_file,
       authorization_existed |-> existed] :
        auth_path \in {None, "", "authorizations/given"},
        terraform \in BOOLEAN,
        existed \in BOOLEAN,
        state_file \in {"absent", "previous"} }

\* the step raised: the except clause of deploy() is entered
Failing(d, exception) == [d EXCEPT !.pc = "rollback", !.exception = exception]

\* deploy(), step 1
DeployGetAccessToken ==
    /\ deployer.pc = "token"
    /\ \E outcome \in TokenOutcomes :
          LET out == deployer_get_access_token(outcome)
              d == [deployer EXCEPT !.calls = Append(@, "_get_access_token")]
          IN  deployer' = IF out.raised # None THEN Failing(d, out.raised)
                          ELSE [d EXCEPT !.pc = "oauth", !.access_token = out.token]
    /\ UNCHANGED <<cacheVars, flowVars, ghostVars, state_query_result, validationVars,
                   parallelVars, schemaVars, generationVars, undeployer>>

\* deploy(), step 2: "if not self.auth_path"
DeployOAuthAuthorization ==
    /\ deployer.pc = "oauth"
    /\ IF Truthy(deployer.auth_path)
       THEN deployer' = [deployer EXCEPT !.pc = "engine"]
       ELSE \E status \in OAuthCreateStatuses(deployer.authorization_existed) :
               LET out == create_oauth_authorization(status)
                   d == [deployer EXCEPT !.calls = Append(@, "create_oauth_authorization")]
               IN  deployer' = IF out.raised # None THEN Failing(d, out.raised)
                               ELSE [d EXCEPT !.pc = "engine",
                                              !.auth_path = out.auth_path,
                                              !.authorization_id = out.auth_id]
    /\ UNCHANGED <<cacheVars, flowVars, ghostVars, state_query_result, validationVars,
                   parallelVars, schemaVars, generationVars, undeployer>>

\* deploy(), step 3
DeployToAgentEngine ==
    /\ deployer.pc = "engine"
    /\ \E outcome \in EngineOutcomes :
          LET out == deploy_to_agent_engine(outcome)
              d == [deployer EXCEPT !.calls = Append(@, "deploy_to_agent_engine")]
          IN  deployer' = IF out.raised # None THEN Failing(d, out.raised)
                          ELSE [d EXCEPT !.pc = "register",
                                         !.deployed_agent = out.deployed_agent,
                                         !.agent_resource_name = out.resource_name]
    /\ UNCHANGED <<cacheVars, flowVars, ghostVars, state_query_result, validationVars,
                   parallelVars, schemaVars, generationVars, undeployer>>

\* deploy(), step 4
DeployRegisterInAgentspace ==
    /\ deployer.pc = "register"
    /\ \E status \in RegisterStatuses :
          LET out == register_in_agentspace(status)
              d == [deployer EXCEPT !.calls = Append(@, "register_in_agentspace")]
          IN  deployer' = IF out.raised # None THEN Failing(d, out.raised)
                          ELSE [d EXCEPT !.pc = "save", !.agent_id = out.agent_id]
    /\ UNCHANGED <<cacheVars, flowVars, ghostVars, state_query_result, validationVars,
                   parallelVars, schemaVars, generationVars, undeployer>>

\* deploy(), step 5 and the return of the result
DeploySaveDeploymentState ==
    /\ deployer.pc = "save"
    /\ \E outcome \in SaveOutcomes :
          LET out == save_deployment_state(outcome, deployer.state_file)
              d == [deployer EXCEPT !.calls = Append(@, "save_deployment_state"),
                                    !.state_file = out.state_file]
          IN  deployer' = IF out.raised # None THEN Failing(d, out.raised)
                          ELSE [d EXCEPT !.pc = "returned"]
    /\ UNCHANGED <<cacheVars, flowVars, ghostVars, state_query_result, validationVars,
                   parallelVars, schemaVars, generationVars, undeployer>>

\* deploy(), "except Exception as e": self.rollback_deployment(), then raise;
\* an exception of the rollback leaves the clause in place of the raise
DeployRollback ==
    /\ deployer.pc = "rollback"
    /\ \E env \in RollbackOutcomes :
          LET d == rollback_deployment(deployer, env)
          IN  deployer' = [d EXCEPT
                              !.pc = "raised",
                              !.raised = IF d.rollback_raised # None
                                         THEN d.rollback_raised ELSE d.exception]
    /\ UNCHANGED <<cacheVars, flowVars, ghostVars, state_query_result, validationVars,
                   parallelVars, schemaVars, generationVars, undeployer>>

InitDeploy ==
    /\ query_cache = EmptyDict
    /\ question_cache = EmptyDict
    /\ pc = [r \in Requests |-> "off"]
    /\ req = [r \in Requests |-> IdleRequest]
    /\ state_query_result = NoneValue
    /\ vcall = NoCall
    /\ batch = NoBatch
    /\ answered = EmptyDict
    /\ written = EmptyDict
    /\ ranAfter = {}
    /\ errorCached = FALSE
    /\ agent = NoAgent
    /\ database_settings = NoneValue
    /\ scall = NoSchemaCall
    /\ gcall = NoGeneration
    /\ state_sql_query = NoneValue
    /\ deployer \in Deployers
    /\ undeployer = NoUndeployer

NextDeploy ==
    \/ DeployGetAccessToken
    \/ DeployOAuthAuthorization
    \/ DeployToAgentEngine
    \/ DeployRegisterInAgentspace
    \/ DeploySaveDeploymentState
    \/ DeployRollback

SpecDeploy == InitDeploy /\ [][NextDeploy]_vars

-----------------------------------------------------------------------------
(* deployment/undeploy.py: AgentUndeployer and main                         *)
(* One run of main(): the state file is loaded, undeploy() takes its steps, *)
(* main derives the exit code.  undeployer.calls is the log of the methods  *)
(* entered; undeployer.answers holds what the services answered.            *)

\* the state file as main finds it: missing, not JSON, without a required
\* field, or complete, written for user or machine OAuth, with or without
\* an authorization_id
StateFiles ==
    { [kind |-> k, oauth_mode |-> None, authorization_id |-> None] :
        k \in {"missing", "invalid_json", "missing_fields"} }
    \cup { [kind |-> "valid", oauth_mode |-> mode, authorization_id |-> id] :
             mode \in {"u2m", "m2m"}, id \in {None, "auth1"} }

\* AgentUndeployer._load_deployment_state: every failure is an
\* UndeploymentError
load_deployment_state(file) ==
    CASE file.kind = "missing" ->
            [state |-> NoneValue, raised |-> "UndeploymentError: Deployment state file not found"]
      [] file.kind = "invalid_json" ->
            [state |-> NoneValue, raised |-> "UndeploymentError: Invalid JSON in deployment state file"]
      [] file.kind = "missing_fields" ->
            [state |-> NoneValue, raised |-> "UndeploymentError: Failed to load deployment state"]
      [] file.kind = "valid" ->
            [state |-> [kind |-> "dict", authorization_id |-> file.authorization_id,
                        is_m2m_deployment |-> (file.oauth_mode = "m2m")],
             raised |-> None]

\* AgentUndeployer._get_access_token
undeployer_get_access_token(outcome) ==
    CASE outcome = "ok" -> [token |-> "token", raised |-> None]
      [] outcome = "CalledProcessError" ->
            [token |-> None, raised |-> "UndeploymentError: Failed to get access token"]
      [] outcome = "FileNotFoundError" ->
            [token |-> None, raised |-> "FileNotFoundError"]

DeleteStatuses == {"200", "404", "500", "RequestException"}

\* what the listing of the agents answers: the agent is in the list or not,
\* the engine is not found, another status, no connection, or a body whose
\* entries are not objects
ListAnswers ==
    {"listed", "not_listed", "list_404", "list_500", "list_RequestException",
     "list_malformed"}

\* the answers delete_from_agentspace can get: the DELETE is sent only for
\* an agent found in the list
AgentspaceAnswers ==
    { [list |-> "listed", status |-> status] : status \in DeleteStatuses }
    \cup { [list |-> l, status |-> None] : l \in ListAnswers \ {"listed"} }

\* delete_from_agentspace(access_token): an agent not in the list (for
\* whatever reason the list is empty) and a 404 count as deleted; only
\* RequestException is caught
delete_from_agentspace(answer) ==
    CASE answer.list = "list_malformed" -> [deleted |-> FALSE, raised |-> "AttributeError"]
      [] answer.list # "listed" -> [deleted |-> TRUE, raised |-> None]
      [] answer.status \in {"200", "204", "404"} -> [deleted |-> TRUE, raised |-> None]
      [] OTHER -> [deleted |-> FALSE, raised |-> None]

\* delete_oauth_authorization with a 404 taken for a failure
delete_oauth_authorization_strict(state, status) ==
    IF state.is_m2m_deployment \/ state.authorization_id = None
    THEN [deleted |-> TRUE, requested |-> FALSE]
    ELSE [deleted |-> status \in {"200", "204"}, requested |-> TRUE]

\* delete_oauth_authorization(access_token): nothing is sent for machine
\* OAuth or without an authorization_id in the state
delete_oauth_authorization(state, status) ==
    IF state.is_m2m_deployment \/ state.authorization_id = None
    THEN [deleted |-> TRUE, requested |-> FALSE]
    ELSE [deleted |-> status \in {"200", "204", "404"}, requested |-> TRUE]

EngineAnswers == {"ok", "get_not_found", "delete_not_found", "get_raises", "delete_raises"}

\* delete_from_agent_engine(): NotFound counts as deleted, every other
\* exception is caught and answered with False
delete_from_agent_engine(answer) ==
    answer \in {"ok", "get_not_found", "delete_not_found"}

UnlinkAnswers == {"ok", "PermissionError"}

\* cleanup_deployment_state(): an exception of unlink is logged and dropped
cleanup_deployment_state(state_file, answer) ==
    IF state_file = "present" /\ answer = "ok" THEN "absent" ELSE state_file

\* main(): the exit code of a run of undeploy that returned results
exit_code(results) ==
    IF results.errors # <<>>
    THEN IF results.agentspace_deleted \/ results.agent_engine_deleted THEN "2" ELSE "1"
    ELSE "0"

\* results as undeploy() starts with them
InitialResults ==
    [agentspace_deleted |-> FALSE, authorization_deleted |-> FALSE,
     agent_engine_deleted |-> FALSE, state_cleaned |-> FALSE, errors |-> <<>>]

NoAnswers == [token |-> None, agentspace |-> None, oauth |-> None, engine |-> None,
              unlink |-> None]

Undeployers ==
    { [pc |-> "load", file |-> file, deployment_state |-> NoneValue,
       state_file |-> IF file.kind = "missing" THEN "absent" ELSE "present",
       results |-> InitialResults, calls |-> <<>>, answers |-> NoAnswers,
       raised |-> None, exit_code |-> None] : file \in StateFiles }

\* main(): AgentUndeployer(); an UndeploymentError ends main with 1
UndeployLoadState ==
    /\ undeployer.pc = "load"
    /\ LET out == load_deployment_state(undeployer.file)
       IN  undeployer' =
              IF out.raised # None
              THEN [undeployer EXCEPT !.pc = "exit", !.raised = out.raised,
                                      !.exit_code = "1"]
              ELSE [undeployer EXCEPT !.pc = "token", !.deployment_state = out.state]
    /\ UNCHANGED <<cacheVars, flowVars, ghostVars, state_query_result, validationVars,
                   parallelVars, schemaVars, generationVars, deployer>>

\* undeploy(), step 1: without a token the results are returned at once
UndeployGetAccessToken ==
    /\ undeployer.pc = "token"
    /\ \E outcome \in TokenOutcomes :
          LET out == undeployer_get_access_token(outcome)
              u == [undeployer EXCEPT !.answers.token = outcome]
          IN  undeployer' =
                 IF out.raised # None
                 THEN [u EXCEPT !.pc = "returned",
                                !.results.errors = Append(@, "Failed to get access token")]
                 ELSE [u EXCEPT !.pc = "agentspace"]
    /\ UNCHANGED <<cacheVars, flowVars, ghostVars, state_query_result, validationVars,
                   parallelVars, schemaVars, generationVars, deployer>>

\* undeploy(), step 2
UndeployDeleteFromAgentspace ==
    /\ undeployer.pc = "agentspace"
    /\ \E answer \in AgentspaceAnswers :
          LET out == delete_from_agentspace(answer)
              u == [undeployer EXCEPT !.pc = "oauth",
                                      !.answers.agentspace = answer,
                                      !.calls = Append(@, "delete_from_agentspace")]
          IN  undeployer' =
                 IF out.raised # None
                 THEN [u EXCEPT !.results.errors = Append(@, "AgentSpace deletion error")]
                 ELSE [u EXCEPT !.results.agentspace_deleted = out.deleted]
    /\ UNCHANGED <<cacheVars, flowVars, ghostVars, state_query_result, validationVars,
                   parallelVars, schemaVars, generationVars, deployer>>

\* undeploy(), step 3
UndeployDeleteOAuthAuthorization ==
    /\ undeployer.pc = "oauth"
    /\ \E status \in DeleteStatuses :
          LET out == delete_oauth_authorization(undeployer.deployment_state, status)
          IN  undeployer' =
                 [undeployer EXCEPT
                     !.pc = "engine",
                     !.answers.oauth = IF out.requested THEN status ELSE None,
                     !.calls = Append(@, "delete_oauth_authorization"),
                     !.results.authorization_deleted = out.deleted]
    /\ UNCHANGED <<cacheVars, flowVars, ghostVars, state_query_result, validationVars,
                   parallelVars, schemaVars, generationVars, deployer>>

\* undeploy(), step 4
UndeployDeleteFromAgentEngine ==
    /\ undeployer.pc = "engine"
    /\ \E answer \in EngineAnswers :
          undeployer' =
             [undeployer EXCEPT
                 !.pc = "state",
                 !.answers.engine = answer,
                 !.calls = Append(@, "delete_from_agent_engine"),
                 !.results.agent_engine_deleted = delete_from_agent_engine(answer)]
    /\ UNCHANGED <<cacheVars, flowVars, ghostVars, state_query_result, validationVars,
                   parallelVars, schemaVars, generationVars, deployer>>

\* undeploy(), step 5 and the return of the results
UndeployCleanupDeploymentState ==
    /\ undeployer.pc = "state"
    /\ \E answer \in UnlinkAnswers :
          undeployer' =
             [undeployer EXCEPT
                 !.pc = "returned",
                 !.answers.unlink = answer,
                 !.calls = Append(@, "cleanup_deployment_state"),
                 !.state_file = cleanup_deployment_state(@, answer),
                 !.results.state_cleaned = TRUE]
    /\ UNCHANGED <<cacheVars, flowVars, ghostVars, state_query_result, validationVars,
                   parallelVars, schemaVars, generationVars, deployer>>

\* main(), after undeploy() has returned
UndeployMain ==
    /\ undeployer.pc = "returned"
    /\ undeployer' = [undeployer EXCEPT !.pc = "exit",
                                        !.exit_code = exit_code(undeployer.results)]
    /\ UNCHANGED <<cacheVars, flowVars, ghostVars, state_query_result, validationVars,
                   parallelVars, schemaVars, generationVars, deployer>>

InitUndeploy ==
    /\ query_cache = EmptyDict
    /\ question_cache = EmptyDict
    /\ pc = [r \in Requests |-> "off"]
    /\ req = [r \in Requests |-> IdleRequest]
    /\ state_query_result = NoneValue
    /\ vcall = NoCall
    /\ batch = NoBatch
    /\ answered = EmptyDict
    /\ written = EmptyDict
    /\ ranAfter = {}
    /\ errorCached = FALSE
    /\ agent = NoAgent
    /\ database_settings = NoneValue
    /\ scall = NoSchemaCall
    /\ gcall = NoGeneration
    /\ state_sql_query = NoneValue
    /\ deployer = NoDeployer
    /\ undeployer \in Undeployers

NextUndeploy ==
    \/ UndeployLoadState
    \/ UndeployGetAccessToken
    \/ UndeployDeleteFromAgentspace
    \/ UndeployDeleteOAuthAuthorization
    \/ UndeployDeleteFromAgentEngine
    \/ UndeployCleanupDeploymentState
    \/ UndeployMain

SpecUndeploy == InitUndeploy /\ [][NextUndeploy]_vars

-----------------------------------------------------------------------------
(* Claims about the cache and the callbacks *)

\* request r takes its before_model_callback in this step
BeforeStep(r) == pc[r] = "before" /\ pc'[r] # "before"

\* C1 (as amended): when the last write for question Q stored a non-empty
\* query text, before_model_callback for Q returns a response whose parts are
\* exactly those of the response last stored under that query text, and the
\* request ends there: neither the Language Model nor the SQL Executor is
\* invoked for it.
C1_CachedQuestionIsReturned ==
    [][\A r \in Requests :
          /\ ( /\ BeforeStep(r)
               /\ HasQuestion(r)
               /\ QuestionOf(r) \in DOMAIN answered
               /\ Truthy(answered[QuestionOf(r)]) )
             => /\ pc'[r] = "hit"
                /\ req'[r].result =
                       LlmResponse(Content("model", written[answered[QuestionOf(r)]]))
                /\ req'[r].modelInvoked = req[r].modelInvoked
                /\ req'[r].executorInvoked = req[r].executorInvoked
          /\ pc[r] = "hit" => pc'[r] \in {"hit", "idle"}]_vars

\* C1 witness: a question answered with the two-part response is asked again
\* and the two parts come back without a model call
C1_Witness ==
    \E r \in Requests :
        /\ pc[r] = "hit"
        /\ HasQuestion(r)
        /\ QuestionOf(r) \in Questions
        /\ QuestionOf(r) \in ranAfter
        /\ req[r].result = LlmResponse(Content("model", <<"s1", "x">>))
        /\ ~req[r].modelInvoked
        /\ ~req[r].executorInvoked

\* C1 as stated: once after_model_callback has run for a request about Q, a
\* later before_model_callback for Q does not miss
C1_AnsweredQuestionNeverMisses ==
    \A r \in Requests :
        (pc[r] = "model" /\ HasQuestion(r)) => QuestionOf(r) \notin ranAfter

\* C5 as stated: no cache tier is written by a request whose validation
\* reported invalid SQL or an executor failure
C5_FailuresAreNeverCached == ~errorCached

\* the question of r has an entry in the question tier whose query has no
\* entry, or an empty one, in the query tier
Inconsistent(r) ==
    /\ HasQuestion(r)
    /\ QuestionOf(r) \in DOMAIN question_cache
    /\ \/ question_cache[QuestionOf(r)] \notin DOMAIN query_cache
       \/ query_cache[question_cache[QuestionOf(r)]] = EmptyEntry

\* C6: before_model_callback returns None, and the model is called, when the
\* request has no contents, when the question tier has no entry for the
\* question, and when it has one whose query has no entry or an empty one in
\* the query tier
C6_InconsistencyIsAMiss ==
    [][\A r \in Requests :
          ( /\ BeforeStep(r)
            /\ \/ Len(req[r].contents) = 0
               \/ HasQuestion(r) /\ QuestionOf(r) \notin DOMAIN question_cache
               \/ Inconsistent(r) )
          => (req'[r].result = NoneValue /\ pc'[r] = "model")]_vars

\* C6 witness: a miss on a question mapped to a non-empty query text that the
\* query tier does not hold
C6_Witness ==
    \E r \in Requests :
        /\ pc[r] = "model"
        /\ req[r].result = NoneValue
        /\ Inconsistent(r)
        /\ Truthy(question_cache[QuestionOf(r)])
        /\ question_cache[QuestionOf(r)] \notin DOMAIN query_cache

-----------------------------------------------------------------------------
(* Claims about run_bigquery_validation *)

\* the call of vcall has ended, by a return or by an exception
CallEnded == vcall.stage \in {"returned", "raised"}

\* s holds one of the eight keywords at some position, in any combination of
\* upper and lower case letters
EmbedsKeyword(s) ==
    \E kw \in DisallowedKeywords :
        \E i \in 1..(Len(s) - Len(kw) + 1) :
            \A j \in 1..Len(kw) : lower_char(s[i + j - 1]) = kw[j]

\* C2: a candidate query that embeds a disallowed keyword in any case
\* combination gets the fixed message and no query_result, and nothing is
\* sent to bq_client.query
C2_DenyListEnforced ==
    (CallEnded /\ EmbedsKeyword(vcall.sql_string))
    => /\ vcall.stage = "returned"
       /\ vcall.final_result =
              [query_result |-> NoneValue, error_message |-> DisallowedMessage]
       /\ vcall.queries = <<>>

\* C2 witness: a keyword in mixed case, inside a longer word, before a
\* BigQuery that would have returned rows
C2_Witness ==
    /\ vcall.stage = "returned"
    /\ vcall.sql_string = <<"x", "_", "D", "r", "O", "p", "_", "a", "t">>
    /\ vcall.exec.kind = "rows"
    /\ vcall.final_result.error_message = DisallowedMessage
    /\ vcall.queries = <<>>

\* C3 as stated: the returned result never has both a query_result and an
\* error_message
C3_ResultAndErrorExclusive ==
    vcall.stage = "returned"
    => ~( /\ vcall.final_result.query_result # NoneValue
          /\ vcall.final_result.error_message # NoneValue )

Min(a, b) == IF a < b THEN a ELSE b

\* C7: a returned query_result holds the first min(n, MAX_NUM_ROWS) of the n
\* rows of the job, in the job's order, and so does
\* tool_context.state["query_result"] when the call wrote it
C7_AtMostMaxNumRows ==
    (vcall.stage = "returned" /\ vcall.final_result.query_result # NoneValue)
    => LET rows == vcall.final_result.query_result.rows
           given == vcall.exec.rows
       IN  /\ Len(rows) <= MAX_NUM_ROWS
           /\ Len(rows) = Min(Len(given), MAX_NUM_ROWS)
           /\ \A i \in 1..Len(rows) : rows[i].id = given[i].id
           /\ vcall.exec.kind = "rows" => state_query_result = RowList(rows)
           /\ state_query_result # vcall.state_before
                 => state_query_result = RowList(rows)

\* C7 witness: the job returned more than MAX_NUM_ROWS rows
C7_Witness ==
    /\ vcall.stage = "returned"
    /\ Len(vcall.exec.rows) > MAX_NUM_ROWS
    /\ vcall.final_result.query_result # NoneValue
    /\ Len(vcall.final_result.query_result.rows) = MAX_NUM_ROWS
    /\ state_query_result = vcall.final_result.query_result
    /\ state_query_result # vcall.state_before

\* the call reached BigQuery and getting the client, submitting the query or
\* reading the results raised
ExecutorFailed ==
    /\ CallEnded
    /\ vcall.exec.kind \in {"client_raises", "query_raises", "result_raises",
                            "read_raises"}
    /\ ~EmbedsKeyword(vcall.sql_string)

\* C8: when the client, the submission or the reading of the results raises,
\* the call returns, with the exception text in error_message and no
\* query_result
C8_ExecutorFailuresDoNotEscape ==
    ExecutorFailed
    => /\ vcall.stage = "returned"
       /\ vcall.raised = None
       /\ vcall.final_result.error_message = ExceptionMessage(vcall.exec.error)
       /\ vcall.final_result.query_result = NoneValue

\* C8 witness: reading the results raised after the query was submitted
C8_Witness ==
    /\ vcall.stage = "returned"
    /\ vcall.exec.kind = "read_raises"
    /\ vcall.queries # <<>>
    /\ vcall.final_result.error_message.detail = "400 Bad Request"
    /\ vcall.final_result.query_result = NoneValue

-----------------------------------------------------------------------------
(* Claims about call_parallel *)

BatchEnded == batch.pc \in {"returned", "raised"}

\* what the slot of prompt i is to hold when its call has completed: the
\* error text when the model or the parser raised, the parsed text otherwise
ExpectedResult(i) ==
    IF \/ batch.behaviour[i] = "model_raises"
       \/ batch.behaviour[i] = "parser_raises" /\ batch.parser_func # None
    THEN [kind |-> "str",
          text |-> "Error: " \o (IF batch.behaviour[i] = "model_raises"
                                 THEN "model: " ELSE "parser: ") \o Prompts[i],
          parsed_by |-> None]
    ELSE [kind |-> "str", text |-> Prompts[i], parsed_by |-> batch.parser_func]

\* C9: a batch of N >= 1 prompts whose calls all complete before the wait
\* bound, some of them by raising, returns N entries, entry i being the error
\* text of prompt i when its call raised and its completion otherwise,
\* whatever the order of completion
C9_PartialFailureContained ==
    (BatchEnded /\ batch.n >= 1 /\ ~batch.timed_out)
    => /\ batch.pc = "returned"
       /\ Len(batch.results) = batch.n
       /\ \A i \in Indexes : batch.results[i] = ExpectedResult(i)

\* C9 witness: three prompts, the call of the last one raises and completes
\* first, the first one completes last
C9_Witness ==
    /\ batch.pc = "returned"
    /\ batch.n = 3
    /\ batch.behaviour = <<"text", "text", "model_raises">>
    /\ batch.order = <<3, 2, 1>>
    /\ batch.results[3].text = "Error: model: p3"
    /\ batch.results[1].text = "p1"

\* C10 as stated: when the wait bound elapses with calls outstanding, the
\* call returns a full-length list with "Timeout" in the outstanding slots and
\* the results in the others
C10_TimeoutReturnsSentinels ==
    (BatchEnded /\ batch.timed_out /\ batch.outstanding # {})
    => /\ batch.pc = "returned"
       /\ Len(batch.results) = batch.n
       /\ \A i \in Indexes :
             batch.results[i] = IF i \in batch.outstanding
                                THEN TimeoutSentinel ELSE ExpectedResult(i)

-----------------------------------------------------------------------------
(* Claims about the cleanup and the safety check of run_bigquery_validation *)

\* a character of a word: a letter, a digit or the underscore
IsWordChar(c) ==
    \/ \E i \in 1..26 : c = LowerLetters[i] \/ c = UpperLetters[i]
    \/ \E i \in 1..10 : c = DigitChars[i]
    \/ c = "_"

\* word stands in s as a whole word, letters compared without case: no word
\* character stands right before it or right after it
HasWholeWord(s, word) ==
    \E i \in 1..(Len(s) - Len(word) + 1) :
        /\ \A j \in 1..Len(word) : lower_char(s[i + j - 1]) = word[j]
        /\ i > 1 => ~IsWordChar(s[i - 1])
        /\ i + Len(word) <= Len(s) => ~IsWordChar(s[i + Len(word)])

\* the call was refused by the safety check
Rejected ==
    /\ vcall.final_result.error_message = DisallowedMessage
    /\ vcall.queries = <<>>

\* C11 as stated: the cleaned query is rejected exactly when one of the eight
\* keywords stands in it as a whole word; a query holding the letters only
\* inside a longer identifier is not rejected
C11_DenyListIsWholeWord ==
    CallEnded
    => (Rejected <=> \E kw \in DisallowedKeywords :
                         HasWholeWord(cleanup_sql(vcall.sql_string), kw))

LimitWord == <<"l", "i", "m", "i", "t">>

LimitSuffix == <<" ", "l", "i", "m", "i", "t", " ", "8", "0">>

\* the four replace statements of cleanup_sql on their own
Unescaped(s) ==
    replace(replace(replace(replace(s, <<"\\", "\"">>, <<"\"">>),
                            <<"\\", "\n">>, <<"\n">>),
                    <<"\\", "'">>, <<"'">>),
            <<"\\", "n">>, <<"\n">>)

\* how many times the letters of word stand in s, letters compared without case
Occurrences(s, word) ==
    Cardinality({ i \in 1..(Len(s) - Len(word) + 1) :
                    \A j \in 1..Len(word) : lower_char(s[i + j - 1]) = word[j] })

EmptyResultSet ==
    /\ vcall.stage = "returned"
    /\ ~Rejected
    /\ \/ vcall.exec.kind = "no_schema"
       \/ vcall.exec.kind = "rows" /\ Len(vcall.exec.rows) = 0

\* C13 as stated: a job that succeeds with an empty result set is not
\* reported through error_message, the field that failures use
C13_EmptyResultIsNotAnError ==
    EmptyResultSet => vcall.final_result.error_message = NoneValue

-----------------------------------------------------------------------------
(* Claims about concurrent requests *)

\* request r makes the first, the second cache write of after_model_callback
\* in this step
QueryWriteStep(r) == pc[r] = "after" /\ pc'[r] = "after_question"

QuestionWriteStep(r) == pc[r] = "after_question" /\ pc'[r] # "after_question"

\* d2 is d with key set to value and nothing else changed
IsDictSet(d, d2, key, value) ==
    /\ DOMAIN d2 = DOMAIN d \cup {key}
    /\ d2[key] = value
    /\ \A k \in DOMAIN d \ {key} : d2[k] = d[k]

\* the requests whose after_model_callback has made both its writes
Writers == {r \in Requests : pc[r] \in {"done", "tool"} /\ req[r].question # None}

\* no request stands between its two writes
NoWriteUnderWay == \A r \in Requests : pc[r] # "after_question"

\* C14: each write of after_model_callback sets one key of one tier to the
\* writing request's own value and changes nothing else, whatever the other
\* request has done in between; so when no write is under way every question
\* written maps to the query of one of its writers, and every query written
\* holds the whole response of one of the requests that wrote that query
C14_LastWriterWins ==
    /\ [][\A r \in Requests :
             /\ QueryWriteStep(r)
                   => /\ IsDictSet(query_cache, query_cache', req'[r].query,
                                   cache_entry(req[r].response))
                      /\ question_cache' = question_cache
             /\ QuestionWriteStep(r)
                   => /\ IsDictSet(question_cache, question_cache',
                                   req[r].question, req[r].query)
                      /\ query_cache' = query_cache]_vars
    /\ [](NoWriteUnderWay
            => \A r \in Writers :
                  /\ question_cache[req[r].question]
                        \in {req[w].query : w \in {w \in Writers :
                                               req[w].question = req[r].question}}
                  /\ query_cache[req[r].query]
                        \in {cache_entry(req[w].response) :
                               w \in {w \in Writers : req[w].query = req[r].query}})

\* C14 witness: both requests missed on the same question and both wrote, with
\* different queries; the question maps to the query of r1, and the query tier
\* holds each query with its own response
C14_Witness ==
    /\ \A r \in Requests : pc[r] = "done" /\ req[r].modelInvoked
    /\ req["r1"].question = "q1" /\ req["r2"].question = "q1"
    /\ QuestionOf("r1") = "q1" /\ QuestionOf("r2") = "q1"
    /\ req["r1"].response = LlmResponse(Content("model", <<"s1", "x">>))
    /\ req["r2"].response = LlmResponse(Content("model", <<"">>))
    /\ question_cache["q1"] = "s1"
    /\ query_cache["s1"] = cache_entry(req["r1"].response)
    /\ query_cache[""] = cache_entry(req["r2"].response)

-----------------------------------------------------------------------------
(* Claims about CacheManager used directly *)

\* the entry last passed to set_to_query_cache for a query, as the observer
\* written records it: the parts of its response, none for the empty dict
LastEntry(query) ==
    IF written[query] = <<>> THEN EmptyEntry
    ELSE cache_entry(LlmResponse(Content("model", written[query])))

\* C15: in each tier a get returns the value of the most recent set of that
\* key in that tier, and None for a key never set in that tier, whatever was
\* set in the other tier and under other keys
C15_TiersAreLastWriteWinsMaps ==
    /\ \A question \in ApiQuestions :
          get_from_question_cache(question) =
              IF question \in DOMAIN answered THEN answered[question] ELSE None
    /\ \A query \in ApiQueries :
          get_from_query_cache(query) =
              IF query \in DOMAIN written THEN LastEntry(query) ELSE NoEntry

\* C15 witness: both tiers hold several keys with different values, one of
\* them the key None, and a key of each tier was never set
C15_Witness ==
    /\ DOMAIN question_cache = {"q1", "Q1"}
    /\ get_from_question_cache("q1") = "s1"
    /\ get_from_question_cache("Q1") = ""
    /\ get_from_question_cache("q1 ") = None
    /\ DOMAIN query_cache = {"s1", None}
    /\ get_from_query_cache("s1") = EmptyEntry
    /\ get_from_query_cache(None) = cache_entry(LlmResponse(Content("model", <<"s1">>)))
    /\ get_from_query_cache("") = NoEntry

\* the question texts that differ from question in letter case or whitespace
\* only
Variants(question) == {"q1", "Q1", "q1 "} \ {question}

\* question has a full entry: a non-empty query text whose response is stored
Answerable(question) ==
    /\ question \in DOMAIN question_cache
    /\ Truthy(question_cache[question])
    /\ ~Falsy(get_from_query_cache(question_cache[question]))

\* C16: before_model_callback returns a cached response only when the
\* question tier has an entry under exactly the question text of the request,
\* and then that entry's response; when only texts that differ from it in
\* letter case or whitespace have entries, it misses
C16_QuestionsAreKeysVerbatim ==
    [][\A r \in Requests :
          (BeforeStep(r) /\ HasQuestion(r))
          => /\ pc'[r] = "hit"
                   => /\ Answerable(QuestionOf(r))
                      /\ req'[r].result =
                            LlmResponse(Content("model",
                                query_cache[question_cache[QuestionOf(r)]].response.parts))
             /\ ( /\ QuestionOf(r) \notin DOMAIN question_cache
                  /\ \E v \in Variants(QuestionOf(r)) : Answerable(v) )
                   => (pc'[r] = "model" /\ req'[r].result = NoneValue)]_vars

\* C16 witness: a request for q1 misses while Q1 and "q1 " both have full
\* entries
C16_Witness ==
    \E r \in Requests :
        /\ pc[r] = "model"
        /\ HasQuestion(r)
        /\ QuestionOf(r) = "q1"
        /\ "q1" \notin DOMAIN question_cache
        /\ Answerable("Q1")
        /\ Answerable("q1 ")

-----------------------------------------------------------------------------
(* Claims about the rows of run_bigquery_validation *)

DateTypes == {"date", "datetime"}

\* value is no datetime.date object and holds none
NoNativeDate(value) ==
    /\ value.type \notin DateTypes
    /\ value.type = "list"
          => \A k \in 1..Len(value.items) : value.items[k].type \notin DateTypes

\* C17 as stated: in every row of a returned query_result each date and
\* date-time of the job's row is replaced by its YYYY-MM-DD string, no native
\* date object remains, every other value and every column name is unchanged
C17_DatesAreNormalized ==
    (vcall.stage = "returned" /\ vcall.final_result.query_result # NoneValue)
    => LET rows == vcall.final_result.query_result.rows
           given == vcall.exec.rows
       IN  \A i \in 1..Len(rows) :
              /\ DOMAIN rows[i] = DOMAIN given[i]
              /\ \A key \in DOMAIN rows[i] :
                    /\ NoNativeDate(rows[i][key])
                    /\ given[i][key].type \in DateTypes
                          => rows[i][key] =
                                [type |-> "str", value |-> strftime_ymd(given[i][key])]
                    /\ given[i][key].type \notin DateTypes
                          => rows[i][key] = given[i][key]

-----------------------------------------------------------------------------
(* Claims about the schema and the instruction of the agent *)

SchemaCallEnded == scall.stage \in {"returned", "raised"}

\* the call fetched the schema and a request to BigQuery failed on the way
FetchFailed ==
    /\ SchemaCallEnded
    /\ scall.state_before = NoneValue
    /\ \/ scall.dataset.fail.at = "list_tables"
       \/ FailingTable(scall.dataset) # 0

\* C18: when listing the tables, reading a table or reading its example rows
\* fails, get_database_settings raises that error, returns no DDL and leaves
\* tool_context.state without database_settings; and a call that finds no
\* database_settings fetches the schema
C18_SchemaFailureYieldsNoPartialSchema ==
    /\ FetchFailed
          => /\ scall.stage = "raised"
             /\ scall.raised = scall.dataset.fail.error
             /\ scall.returned = NoneValue
             /\ database_settings = NoneValue
    /\ (SchemaCallEnded /\ scall.state_before = NoneValue) => scall.fetched

\* C18 witness: the second call fetches again after a failed first call, and
\* fails reading the rows of the second table, the DDL of the first one built
C18_Witness ==
    /\ scall.stage = "raised"
    /\ scall.calls = 2
    /\ scall.fetched
    /\ scall.dataset.fail.at = "list_rows"
    /\ FailingTable(scall.dataset) = 2
    /\ scall.partial # <<>>
    /\ database_settings = NoneValue

\* Reading a text as SQL, piece by piece: where the reader stands after a
\* piece, "out" of any string literal or "in" one, "esc" after a backslash
\* within a literal, "q" after a quote within a literal (the literal has
\* ended, unless the next piece is a quote too: two quotes in a row are a
\* quote of the value)
ScanModes == {"out", "in", "esc", "q"}

ScanStep(mode, piece) ==
    CASE mode = "out" -> IF piece = "'" THEN "in" ELSE "out"
      [] mode = "esc" -> "in"
      [] mode = "q" -> IF piece = "'" THEN "in" ELSE "out"
      [] OTHER -> IF piece = "\\" THEN "esc"
                  ELSE IF piece = "'" THEN "q" ELSE "in"

\* reading first one stretch of a text, then the next: for each mode the
\* reader may start in, the mode it ends in and the literals it saw open
ScanThen(first, next) ==
    [m \in ScanModes |->
        [end |-> next[first[m].end].end,
         count |-> first[m].count + next[first[m].end].count]]

\* reading the pieces lo..hi of text, by halves
RECURSIVE ScanStretch(_, _, _)
ScanStretch(text, lo, hi) ==
    IF lo = hi
    THEN [m \in ScanModes |->
             [end |-> ScanStep(m, text[lo]),
              count |-> IF m = "out" /\ text[lo] = "'" THEN 1 ELSE 0]]
    ELSE ScanThen(ScanStretch(text, lo, (lo + hi) \div 2),
                  ScanStretch(text, ((lo + hi) \div 2) + 1, hi))

\* whether the text ends inside a literal, and the literals it opened
ScanLiterals(text) ==
    IF text = <<>> THEN [inside |-> FALSE, count |-> 0]
    ELSE LET read == ScanStretch(text, 1, Len(text))["out"]
         IN  [inside |-> read.end \in {"in", "esc"}, count |-> read.count]

\* the number of string literals the DDL of a table is to hold: one for each
\* description, one for each string value of its example rows
RECURSIVE CountStr(_)
CountStr(values) ==
    IF values = <<>> THEN 0
    ELSE (IF Head(values).type = "str" THEN 1 ELSE 0) + CountStr(Tail(values))

RECURSIVE CountRows(_)
CountRows(rows) ==
    IF rows = <<>> THEN 0 ELSE CountStr(Head(rows)) + CountRows(Tail(rows))

RECURSIVE CountTables(_)
CountTables(tables) ==
    IF tables = <<>> THEN 0
    ELSE (IF Head(tables).table_type # "TABLE" THEN 0
          ELSE Cardinality({k \in 1..Len(Head(tables).schema) :
                               Truthy(Head(tables).schema[k].description)})
               + (IF dataframe_empty(Head(tables)) THEN 0
                  ELSE CountRows(list_rows(Head(tables)))))
         + CountTables(Tail(tables))

\* C19 as stated: in the DDL returned, every string value of an example row
\* stands as one literal that ends where the value ends, a value holding a
\* quote included
C19_ExampleValuesAreSafelyQuoted ==
    (scall.stage = "returned" /\ scall.fetched)
    => LET scanned == ScanLiterals(scall.returned.bq_ddl_schema)
       IN  /\ ~scanned.inside
           /\ scanned.count = CountTables(scall.dataset.tables)

\* C20 as stated: BASELINE and CHASE, the recognised settings, select
\* different generation tools, and any other setting is rejected with an
\* error
C20_SettingSelectsStrategy ==
    agent.stage \in {"built", "raised"}
    => LET NL2SQL_METHOD == getenv_NL2SQL_METHOD(agent.NL2SQL_METHOD)
       IN  /\ NL2SQL_METHOD \notin {"BASELINE", "CHASE"}
                 => (agent.stage = "raised" /\ agent.db_tool_name = None)
           /\ NL2SQL_METHOD \in {"BASELINE", "CHASE"}
                 => /\ agent.stage = "built"
                    /\ agent.db_tool_name # None
                    /\ NL2SQL_METHOD = "CHASE"
                          => agent.db_tool_name
                                # return_instructions_bigquery("BASELINE").db_tool_name

-----------------------------------------------------------------------------
(* Claims about initial_bq_nl2sql *)

HasFence(chars) ==
    \E i \in 1..(Len(chars) - 2) : SubSeq(chars, i, i + 2) = CodeFence

\* C21: a call of initial_bq_nl2sql that returns has sent exactly one prompt
\* to the model (a call that raises, at most one); the text returned holds no
\* code fence and neither begins nor ends with whitespace; tool_context.state
\* holds exactly the value returned under sql_query; an empty or absent model
\* text is returned and stored as it is
C21_DirectGeneration ==
    /\ gcall.stage = "raised"
          => /\ Len(gcall.prompts) <= 1
             /\ state_sql_query = gcall.sql_query_before
    /\ gcall.stage = "returned"
          => /\ Len(gcall.prompts) = 1
             /\ state_sql_query = gcall.returned
             /\ gcall.returned.kind = "str"
                   => /\ ~HasFence(gcall.returned.chars)
                      /\ gcall.returned.chars # <<>>
                            => /\ Head(gcall.returned.chars) \notin WhitespaceChars
                               /\ gcall.returned.chars[Len(gcall.returned.chars)]
                                     \notin WhitespaceChars
             /\ (gcall.model.text = NoneValue \/ gcall.model.text = StrOf(<<>>))
                   => gcall.returned = gcall.model.text

\* C21 witness: the model answers a fenced block, grave accents around it
\* closing up to a fence when the opening of the block is removed
C21_Witness ==
    /\ gcall.stage = "returned"
    /\ gcall.model.text =
          StrOf(<<Grave>> \o CodeFence \o <<"s", "q", "l">> \o <<Grave, Grave>>)
    /\ gcall.returned = StrOf(<<>>)
    /\ state_sql_query = StrOf(<<>>)
    /\ gcall.sql_query_before # NoneValue

\* ---------------------------------------------------------------------------
\* C22: whatever the callbacks have done so far, two of them interleaved and
\* one stopped between its two writes included, every query the question tier
\* holds as a value is a key of the query tier

\* a callback that has written the query tier and not yet the question tier
BetweenWrites(r) == pc[r] = "after_question"

C22_QuestionTierPointsIntoQueryTier ==
    \A question \in DOMAIN question_cache :
        question_cache[question] \in DOMAIN query_cache

\* one callback has written both tiers, the other stands between its two
\* writes with a query the question tier does not hold yet
C22_Witness ==
    /\ DOMAIN question_cache # {}
    /\ \E r \in Requests :
          /\ BetweenWrites(r)
          /\ req[r].query \in DOMAIN query_cache
          /\ \A question \in DOMAIN question_cache :
                 question_cache[question] # req[r].query

\* ---------------------------------------------------------------------------
\* C23: cleanup comes first, the safety check second, the execution last: a
\* call sends at most one string to bq_client.query, that string is the
\* cleaned text, it holds the letters "limit" in some letter case and none of
\* the eight keywords, and a call the safety check refuses sends none
C23_CleanupThenCheckThenExecute ==
    CallEnded
    => LET cleaned == cleanup_sql(vcall.sql_string)
       IN  /\ Len(vcall.queries) <= 1
           /\ \A i \in 1..Len(vcall.queries) :
                 /\ vcall.queries[i] = cleaned
                 /\ Occurrences(vcall.queries[i], LimitWord) >= 1
                 /\ ~EmbedsKeyword(vcall.queries[i])
           /\ EmbedsKeyword(cleaned) => vcall.queries = <<>>

\* C23 witness: a query with escaped double quotes and no LIMIT reached
\* BigQuery once, as the cleaned text, which differs from what was passed in
C23_Witness ==
    /\ vcall.stage = "returned"
    /\ vcall.sql_string =
          <<"s", "e", "l", "e", "c", "t", " ", "\\", "\"", "a", "\\", "\"", " ", "f", "r", "o", "m", " ", "t">>
    /\ vcall.exec.kind = "rows"
    /\ vcall.queries =
          << <<"s", "e", "l", "e", "c", "t", " ", "\"", "a", "\"", " ", "f", "r", "o", "m", " ", "t">>
                \o LimitSuffix >>

\* ---------------------------------------------------------------------------
\* C24: a call of get_database_settings on a state without settings fetches
\* the schema and, the fetch succeeding, stores the settings and returns
\* them; a call on a state with settings returns them as they are and asks
\* BigQuery nothing; settings once stored never change, whatever becomes of
\* the dataset
SettingsOf(dataset) == update_database_settings(dataset)

C24_CallsAgreeWithState ==
    SchemaCallEnded
    => /\ scall.state_before = NoneValue
          => /\ scall.fetched
             /\ scall.stage = "returned"
                   => /\ scall.returned = SettingsOf(scall.dataset).settings
                      /\ database_settings = scall.returned
             /\ scall.stage = "raised" => database_settings = NoneValue
       /\ scall.state_before # NoneValue
          => /\ ~scall.fetched
             /\ scall.stage = "returned"
             /\ scall.returned = scall.state_before
             /\ database_settings = scall.state_before

C24_SchemaFetchedOnce ==
    /\ [](C24_CallsAgreeWithState)
    /\ [][database_settings # NoneValue
             => database_settings' = database_settings]_vars

\* C24 witness: the second call returned the settings of the first although
\* the dataset has lost a table since and BigQuery now fails
C24_Witness ==
    /\ scall.stage = "returned"
    /\ scall.calls = 2
    /\ scall.state_before # NoneValue
    /\ ~scall.fetched
    /\ scall.returned = database_settings
    /\ scall.dataset.fail.at = "list_tables"
    /\ scall.returned.bq_ddl_schema # tables_ddl(scall.dataset.tables)

\* ---------------------------------------------------------------------------
\* C25: a write to one tier leaves the other tier as it was, a run of
\* before_model_callback (with the reads of both tiers it makes) leaves both
\* as they were, no step takes a key out of a tier, and each tier holds every
\* key ever set in it

\* the step is a run of before_model_callback
BeforeCallbackStep == \E r \in Requests : pc[r] = "before" /\ pc'[r] # "before"

\* every key ever set is a key now
EveryKeyKept ==
    /\ DOMAIN written \subseteq DOMAIN query_cache
    /\ DOMAIN answered \subseteq DOMAIN question_cache

C25_TiersIndependentAndGrowing ==
    /\ [](EveryKeyKept)
    /\ [][/\ query_cache' # query_cache => question_cache' = question_cache
          /\ question_cache' # question_cache => query_cache' = query_cache
          /\ BeforeCallbackStep => UNCHANGED cacheVars
          /\ DOMAIN query_cache \subseteq DOMAIN query_cache'
          /\ DOMAIN question_cache \subseteq DOMAIN question_cache']_vars

\* C25 witness: every key the clients write is in its tier, and a request was
\* answered from the two tiers
C25_Witness ==
    /\ DOMAIN query_cache = ApiQueries
    /\ DOMAIN question_cache = ApiQuestions
    /\ \E r \in Requests : pc[r] = "hit"

\* ---------------------------------------------------------------------------
\* C26: run_bigquery_validation gives tool_context.state["query_result"] a
\* new value only when the job succeeded with a schema, and then the rows it
\* returns; a refused query, an exception and a job without schema leave the
\* value of the earlier call; call_ds_agent afterwards is handed that value

\* the job of the call succeeded and has a schema
SucceededWithSchema ==
    /\ vcall.queries # <<>>
    /\ vcall.exec.kind = "rows"

\* the cases in which nothing is to be written
NothingToStore ==
    \/ Rejected
    \/ vcall.exec.kind \in {"client_raises", "query_raises", "result_raises",
                            "read_raises", "no_schema"}

\* the rows of the last job that succeeded with a schema, this call's or the
\* earlier call's
LastStoredRows ==
    IF SucceededWithSchema THEN RowList(convert_rows(vcall.exec.rows))
    ELSE vcall.state_before

C26_QueryResultKeptUnlessRows ==
    /\ CallEnded
       => /\ state_query_result # vcall.state_before
                => /\ SucceededWithSchema
                   /\ vcall.final_result.query_result = state_query_result
          /\ NothingToStore => state_query_result = vcall.state_before
          /\ SucceededWithSchema => state_query_result = LastStoredRows
    /\ (vcall.stage = "analysed" /\ vcall.ds.read /\ vcall.ds.raised = None)
       => /\ vcall.ds.input_data = state_query_result
          /\ vcall.exec.kind # "store_raises" => vcall.ds.input_data = LastStoredRows

\* C26 witness: a job without schema after a call that stored a row, and
\* call_ds_agent handed that row
C26_Witness ==
    /\ vcall.stage = "analysed"
    /\ vcall.exec.kind = "no_schema"
    /\ vcall.state_before = RowList(ExecRows(1, "plain"))
    /\ vcall.ds.read
    /\ vcall.ds.input_data = vcall.state_before

\* ---------------------------------------------------------------------------
\* Claims about deploy()

DeployStepNames ==
    {"_get_access_token", "create_oauth_authorization", "deploy_to_agent_engine",
     "register_in_agentspace", "save_deployment_state"}

\* the steps a run is to take, in their order
DeploySteps ==
    IF Truthy(deployer.AUTH_PATH)
    THEN <<"_get_access_token", "deploy_to_agent_engine",
           "register_in_agentspace", "save_deployment_state">>
    ELSE <<"_get_access_token", "create_oauth_authorization", "deploy_to_agent_engine",
           "register_in_agentspace", "save_deployment_state">>

IsStep(name) == name \in DeployStepNames

\* the steps the run has entered so far
StepsTaken == SelectSeq(deployer.calls, IsStep)

Called(name) == \E i \in 1..Len(deployer.calls) : deployer.calls[i] = name

DeployRunning == deployer.pc # "idle"

\* C27 as stated: the steps are entered in the order token, OAuth
\* authorization (only without AUTH_PATH), Agent Engine, AgentSpace, save;
\* the state file is written only after every earlier step succeeded; a run
\* in which a step failed rolls back and raises the exception of that step,
\* has asked for the deletion of the Agent Engine deployment it created, and
\* leaves no state file
C27_DeployAllOrRollback ==
    DeployRunning
    => /\ Len(StepsTaken) <= Len(DeploySteps)
       /\ \A i \in 1..Len(StepsTaken) : StepsTaken[i] = DeploySteps[i]
       /\ deployer.state_file = "this"
             => /\ StepsTaken = DeploySteps
                /\ deployer.pc = "returned"
       /\ deployer.exception # None => deployer.pc \in {"rollback", "raised"}
       /\ deployer.pc = "raised"
             => /\ Called("rollback_deployment")
                /\ deployer.raised = deployer.exception
                /\ deployer.deployed_agent # None => Called("deployed_agent.delete")
                /\ deployer.state_file = "absent"

\* the authorization was there before the run: its path was configured, or
\* the service said that it exists already
AuthorizationPreExisting ==
    \/ Truthy(deployer.AUTH_PATH)
    \/ deployer.authorization_existed

\* C28 as stated: a rollback asks for the deletion of the authorization only
\* when this run created it and it is not Terraform-managed; one that was
\* there before the run is never deleted
C28_RollbackDeletesOnlyOwnAuthorization ==
    (DeployRunning /\ Called("requests.delete authorization"))
    => /\ ~AuthorizationPreExisting
       /\ ~deployer.terraform_managed

\* ---------------------------------------------------------------------------
\* Claims about undeploy() and the exit code of main()

UndeploySteps ==
    <<"delete_from_agentspace", "delete_oauth_authorization",
      "delete_from_agent_engine", "cleanup_deployment_state">>

\* undeploy() has returned its results
UndeployReturned == undeployer.pc \in {"returned", "exit"} /\ undeployer.raised = None

TokenObtained == UndeployReturned /\ undeployer.answers.token = "ok"

TokenFailed == UndeployReturned /\ undeployer.answers.token # "ok"

\* C29: with a token, undeploy enters the AgentSpace deletion, the OAuth
\* deletion, the Agent Engine deletion and the state-file cleanup in this
\* order, whatever the earlier ones answered or raised; a resource that is
\* not found counts as deleted; without a token nothing is entered, the state
\* file stays, every flag is false and one error is recorded; undeploy
\* always returns
C29_UndeployStepsIndependent ==
    /\ undeployer.pc \notin {"idle", "load"}
       => /\ Len(undeployer.calls) <= Len(UndeploySteps)
          /\ \A i \in 1..Len(undeployer.calls) : undeployer.calls[i] = UndeploySteps[i]
    /\ TokenObtained
       => /\ undeployer.calls = UndeploySteps
          /\ undeployer.results.state_cleaned
          /\ (undeployer.answers.agentspace.list \in {"not_listed", "list_404"}
                \/ undeployer.answers.agentspace.status = "404")
                => undeployer.results.agentspace_deleted
          /\ undeployer.answers.oauth = "404" => undeployer.results.authorization_deleted
          /\ undeployer.answers.engine \in {"get_not_found", "delete_not_found"}
                => undeployer.results.agent_engine_deleted
    /\ TokenFailed
       => /\ undeployer.calls = <<>>
          /\ undeployer.state_file = "present"
          /\ ~undeployer.results.agentspace_deleted
          /\ ~undeployer.results.authorization_deleted
          /\ ~undeployer.results.agent_engine_deleted
          /\ ~undeployer.results.state_cleaned
          /\ Len(undeployer.results.errors) = 1
    /\ (undeployer.pc = "exit" /\ undeployer.deployment_state # NoneValue)
       => undeployer.raised = None

\* C29 witness: the AgentSpace deletion raised, the authorization and the
\* Agent Engine agent were not found, and all four steps were taken
C29_Witness ==
    /\ TokenObtained
    /\ undeployer.answers.agentspace.list = "list_malformed"
    /\ undeployer.results.errors # <<>>
    /\ undeployer.answers.oauth = "404"
    /\ undeployer.results.authorization_deleted
    /\ undeployer.answers.engine = "get_not_found"
    /\ undeployer.results.agent_engine_deleted
    /\ undeployer.calls = UndeploySteps

AllCleaned ==
    /\ undeployer.results.agentspace_deleted
    /\ undeployer.results.authorization_deleted
    /\ undeployer.results.agent_engine_deleted
    /\ undeployer.results.state_cleaned

ErrorsOccurred == undeployer.results.errors # <<>>

OneOfTheAgentsDeleted ==
    undeployer.results.agentspace_deleted \/ undeployer.results.agent_engine_deleted

\* C30 as stated: main returns 0 only when the AgentSpace agent, the
\* authorization, the Agent Engine agent and the state file were all cleaned
\* up; 2 when errors occurred and one of the two agent deletions succeeded; 1
\* when errors occurred and neither succeeded, or the state could not be
\* loaded
C30_ExitCodeReflectsCleanup ==
    undeployer.pc = "exit"
    => /\ undeployer.exit_code = "0" => AllCleaned
       /\ undeployer.exit_code = "2"
             => (undeployer.raised = None /\ ErrorsOccurred /\ OneOfTheAgentsDeleted)
       /\ undeployer.exit_code = "1"
             => (undeployer.raised # None \/ (ErrorsOccurred /\ ~OneOfTheAgentsDeleted))

====
